---- MODULE Spec2Model ----
(***************************************************************************)
(* Model of the recipe modification loop of macronome: the constraint      *)
(* checker, the two NutritionCalculator classes with their per-instance    *)
(* USDA lookup cache, and ModificationAgent.process.                       *)
(*                                                                         *)
(* Conventions.  A Python str is a sequence of one-character strings, so   *)
(* that lower(), strip(), split() and the substring tests of the source    *)
(* are computed rather than assumed.  A Python float is a rational kept    *)
(* as an integer numerator over a power of ten stated at each use          *)
(* (a quantity is counted in hundredths).  Optional[x] is <<>> for None    *)
(* and <<x>> for a value.                                                  *)
(***************************************************************************)
EXTENDS Integers, Sequences, FiniteSets, TLC

VARIABLES
  \* ModificationAgent.process, one request
  pc, selected_recipe, normalized, api_key, iteration, constraints_met, issues,
  initial_ingredients, recipe_state, final_modified_recipe, current_nutrition,
  cache, saved_output, nutrition_node, editor_calls, calc_calls, tool_calls,
  last_edit, last_calc, prompt, check_log, failed_at,
  \* _check_constraints_met applied to drawn inputs
  chk_nutrition, chk_constraints, chk_result,
  \* NutritionCalculator instances shared by concurrent coroutines
  calc_class, calc_cache, calc_api_key, task, ext_calls, produced, races,
  \* _convert_to_grams, parse_ingredient and calculate applied to drawn inputs
  conv_args, conv_grams, raw_line, parsed, sum_args, sum_nutrition, converted,
  \* QCRouter.route applied to what the loop saved
  qc_args, qc_out,
  \* one submitted recommend_meal_async task in the Celery worker
  job

loopVars == <<pc, selected_recipe, normalized, api_key, iteration, constraints_met,
              issues, initial_ingredients, recipe_state, final_modified_recipe,
              current_nutrition, cache, saved_output, nutrition_node, editor_calls,
              calc_calls, tool_calls, last_edit, last_calc, prompt, check_log,
              failed_at>>
checkVars == <<chk_nutrition, chk_constraints, chk_result>>
cacheVars == <<calc_class, calc_cache, calc_api_key, task, ext_calls, produced, races>>
fnVars == <<conv_args, conv_grams, raw_line, parsed, sum_args, sum_nutrition,
           converted, qc_args, qc_out, job>>
vars == <<loopVars, checkVars, cacheVars, fnVars>>

\* ------------------------------------------------------------------ str
UpperChars == <<"A", "B", "C", "D", "E", "F", "G", "H", "I", "J", "K", "L", "M",
                "N", "O", "P", "Q", "R", "S", "T", "U", "V", "W", "X", "Y", "Z">>
LowerChars == <<"a", "b", "c", "d", "e", "f", "g", "h", "i", "j", "k", "l", "m",
                "n", "o", "p", "q", "r", "s", "t", "u", "v", "w", "x", "y", "z">>
DigitChars == <<"0", "1", "2", "3", "4", "5", "6", "7", "8", "9">>

UpperSet == {UpperChars[i] : i \in DOMAIN UpperChars}
LowerOf ==
  [c \in UpperSet |-> LowerChars[CHOOSE i \in DOMAIN UpperChars : UpperChars[i] = c]]
LowerChar(c) == IF c \in UpperSet THEN LowerOf[c] ELSE c

\* str.lower()
RECURSIVE Lower(_)
Lower(s) == IF s = << >> THEN << >> ELSE <<LowerChar(Head(s))>> \o Lower(Tail(s))

IsSpace(c) == c \in {" ", "\t", "\n"}

RECURSIVE LStrip(_)
LStrip(s) == IF s # <<>> /\ IsSpace(Head(s)) THEN LStrip(Tail(s)) ELSE s

RECURSIVE RStrip(_)
RStrip(s) ==
  IF s # <<>> /\ IsSpace(s[Len(s)]) THEN RStrip(SubSeq(s, 1, Len(s) - 1)) ELSE s

\* str.strip()
Strip(s) == RStrip(LStrip(s))

\* sub in s
Contains(s, sub) ==
  \E i \in 0..(Len(s) - Len(sub)) : SubSeq(s, i + 1, i + Len(sub)) = sub

\* any(w in s for w in words)
ContainsAny(s, words) == \E w \in words : Contains(s, w)

DigitSet == {DigitChars[i] : i \in DOMAIN DigitChars}
IsDigitChar(c) == c \in DigitSet
DigitVal(c) == (CHOOSE i \in DOMAIN DigitChars : DigitChars[i] = c) - 1

Abs(x) == IF x < 0 THEN -x ELSE x
Max(a, b) == IF a >= b THEN a ELSE b

\* Optional[x]
None == <<>>
Some(x) == <<x>>

\* ------------------------------------------------ string literals of the source
\* the string literals the calculators and the loop compare against
Words ==
  [ g |-> <<"g">>,
    gram |-> <<"g", "r", "a", "m">>,
    kg |-> <<"k", "g">>,
    oz |-> <<"o", "z">>,
    lb |-> <<"l", "b">>,
    cup |-> <<"c", "u", "p">>,
    tbsp |-> <<"t", "b", "s", "p">>,
    tablespoon |-> <<"t", "a", "b", "l", "e", "s", "p", "o", "o", "n">>,
    tsp |-> <<"t", "s", "p">>,
    teaspoon |-> <<"t", "e", "a", "s", "p", "o", "o", "n">>,
    ml |-> <<"m", "l">>,
    l |-> <<"l">>,
    serving |-> <<"s", "e", "r", "v", "i", "n", "g">>,
    butter |-> <<"b", "u", "t", "t", "e", "r">>,
    rice |-> <<"r", "i", "c", "e">>,
    chicken |-> <<"c", "h", "i", "c", "k", "e", "n">>,
    turkey |-> <<"t", "u", "r", "k", "e", "y">>,
    beef |-> <<"b", "e", "e", "f">>,
    pork |-> <<"p", "o", "r", "k">>,
    pasta |-> <<"p", "a", "s", "t", "a">>,
    cheese |-> <<"c", "h", "e", "e", "s", "e">>,
    vegetable |-> <<"v", "e", "g", "e", "t", "a", "b", "l", "e">>,
    lettuce |-> <<"l", "e", "t", "t", "u", "c", "e">>,
    spinach |-> <<"s", "p", "i", "n", "a", "c", "h">>,
    broccoli |-> <<"b", "r", "o", "c", "c", "o", "l", "i">>,
    energy |-> <<"e", "n", "e", "r", "g", "y">>,
    calorie |-> <<"c", "a", "l", "o", "r", "i", "e">>,
    protein |-> <<"p", "r", "o", "t", "e", "i", "n">>,
    carbohydrate |-> <<"c", "a", "r", "b", "o", "h", "y", "d", "r", "a", "t", "e">>,
    fat |-> <<"f", "a", "t">>,
    total_lipid |-> <<"t", "o", "t", "a", "l", " ", "l", "i", "p", "i", "d">>,
    grams |-> <<"g", "r", "a", "m", "s">>,
    kilogram |-> <<"k", "i", "l", "o", "g", "r", "a", "m">>,
    ounce |-> <<"o", "u", "n", "c", "e">>,
    pound |-> <<"p", "o", "u", "n", "d">>,
    quart |-> <<"q", "u", "a", "r", "t">>,
    qt |-> <<"q", "t">>,
    pint |-> <<"p", "i", "n", "t">>,
    pt |-> <<"p", "t">>,
    can |-> <<"c", "a", "n">>,
    jar |-> <<"j", "a", "r">>,
    box |-> <<"b", "o", "x">>,
    pkg |-> <<"p", "k", "g">>,
    package |-> <<"p", "a", "c", "k", "a", "g", "e">>,
    carton |-> <<"c", "a", "r", "t", "o", "n">>,
    bottle |-> <<"b", "o", "t", "t", "l", "e">>,
    small |-> <<"s", "m", "a", "l", "l">>,
    medium |-> <<"m", "e", "d", "i", "u", "m">>,
    large |-> <<"l", "a", "r", "g", "e">>,
    loaf |-> <<"l", "o", "a", "f">>,
    slice |-> <<"s", "l", "i", "c", "e">>,
    piece |-> <<"p", "i", "e", "c", "e">>,
    clove |-> <<"c", "l", "o", "v", "e">>,
    flour |-> <<"f", "l", "o", "u", "r">>,
    sugar |-> <<"s", "u", "g", "a", "r">>,
    powder |-> <<"p", "o", "w", "d", "e", "r">>,
    oil |-> <<"o", "i", "l">>,
    shortening |-> <<"s", "h", "o", "r", "t", "e", "n", "i", "n", "g">>,
    water |-> <<"w", "a", "t", "e", "r">>,
    milk |-> <<"m", "i", "l", "k">>,
    liquid |-> <<"l", "i", "q", "u", "i", "d">>,
    juice |-> <<"j", "u", "i", "c", "e">>,
    grain |-> <<"g", "r", "a", "i", "n">> ]

\* ------------------------------------------------- _check_constraints_met
\* The largest power of two strictly below c (1 for c <= 2): the binade of the
\* doubles just below c.
RECURSIVE Pow2Below(_, _)
Pow2Below(c, p) == IF 2 * p < c THEN Pow2Below(c, 2 * p) ELSE p

\* min_acceptable <= calories, with min_acceptable = target_min * (1 - 0.15)
\* in IEEE double arithmetic.  1 - 0.15 is the double 0.85 - 1/(5*2^53), so
\* the product is rounded from a value at or just below 17*target_min/20 and
\* the comparison with an integer agrees with the exact one.
MinAcceptableLeq(target_min, calories) == 20 * calories >= 17 * target_min

\* calories <= max_acceptable, with max_acceptable = target_max * (1 + 0.15)
\* in IEEE double arithmetic.  1 + 0.15 is the double 1.15 - 1/(5*2^51): the
\* exact product lies target_max/(5*2^51) below 23*target_max/20, and when
\* that is an integer c the product rounds back up to c only if the gap is at
\* most half the spacing 2^(k-52) of the doubles below c (2^k < c <= 2^(k+1);
\* a tie rounds to c, whose significand is even), i.e. 4*target_max <= 5*2^k.
LeqMaxAcceptable(calories, target_max) ==
  \/ 20 * calories < 23 * target_max
  \/ /\ 20 * calories = 23 * target_max
     /\ \/ target_max = 0
        \/ 4 * target_max <= 5 * Pow2Below(calories, 1)

\* not (min_acceptable <= nutrition.calories <= max_acceptable)
CalorieIssue(constraints, nutrition) ==
  IF constraints.calorie_range # None
     /\ ~ ( /\ MinAcceptableLeq(constraints.calorie_range[1], nutrition.calories)
            /\ LeqMaxAcceptable(nutrition.calories, constraints.calorie_range[2]) )
  THEN << [field |-> "Calories", actual |-> nutrition.calories] >>
  ELSE << >>

\* diff_pct = abs(value - target) / max(target, 1); diff_pct > 0.15.  The
\* quotient is correctly rounded and 0.15 is the double nearest 3/20, so the
\* comparison agrees with the exact 20*|value - target| > 3*max(target, 1).
DiffPctOverTolerance(value, target) ==
  20 * Abs(value - target) > 3 * Max(target, 1)

\* (mutant) a target of 0 is checked like any other target
MacroIssueZeroChecked(target, value, field) ==
  IF target # None /\ DiffPctOverTolerance(value, target[1])
  THEN << [field |-> field, actual |-> value] >>
  ELSE << >>

\* if targets.<field>: ... issues.append(...)
MacroIssue(target, value, field) ==
  IF target # None /\ target[1] # 0 /\ DiffPctOverTolerance(value, target[1])
  THEN << [field |-> field, actual |-> value] >>
  ELSE << >>

\* (mutant) absent macro targets are replaced by default targets and checked
MacroIssuesDefaultTargets(constraints, nutrition) ==
  LET targets == IF constraints.macro_targets # None THEN constraints.macro_targets[1]
                 ELSE [protein |-> Some(25), carbs |-> None, fat |-> None]
  IN  MacroIssue(IF targets.protein = None THEN Some(25) ELSE targets.protein,
                 nutrition.protein, "Protein")
        \o MacroIssue(targets.carbs, nutrition.carbs, "Carbs")
        \o MacroIssue(targets.fat, nutrition.fat, "Fat")

MacroIssues(constraints, nutrition) ==
  IF constraints.macro_targets # None
  THEN LET targets == constraints.macro_targets[1]
       IN  MacroIssue(targets.protein, nutrition.protein, "Protein")
             \o MacroIssue(targets.carbs, nutrition.carbs, "Carbs")
             \o MacroIssue(targets.fat, nutrition.fat, "Fat")
  ELSE << >>

\* returns (len(issues) == 0, issues)
CheckConstraintsMet(nutrition, constraints) ==
  LET found == CalorieIssue(constraints, nutrition) \o MacroIssues(constraints, nutrition)
  IN  [met |-> Len(found) = 0, issues |-> found]

\* ------------------------------------------------------------ dict helpers
EmptyDict == [k \in {} |-> 0]
DictSet(d, k, v) == [x \in (DOMAIN d) \cup {k} |-> IF x = k THEN v ELSE d[x]]
DictGet(d, k, default) == IF k \in DOMAIN d THEN d[k] ELSE default

\* int(x) of a rational a/b with b > 0: truncation toward zero
TruncDiv(a, b) == IF a >= 0 THEN a \div b ELSE -((-a) \div b)

Min(S) == CHOOSE x \in S : \A y \in S : x <= y

\* `if usda_data:` -- None and the empty dict are both falsy
Truthy(data) == data # None /\ DOMAIN data[1] # {}


\* ------------------------------------------------------------------ inputs
\* The bounded inputs the specifications draw from.
MaxIngredients == 2
MaxToolCalls == 1

N_chicken == <<"c", "h", "i", "c", "k", "e", "n">>
N_rice == <<"r", "i", "c", "e">>
N_Rice_sp == <<"R", "i", "c", "e", " ">>
N_white_rice == <<"w", "h", "i", "t", "e", " ", "r", "i", "c", "e">>
N_white__rice == <<"w", "h", "i", "t", "e", " ", " ", "r", "i", "c", "e">>
U_g == <<"g">>
U_cup == <<"c", "u", "p">>
L_tofu == <<"t", "o", "f", "u">>
L_3_tofu == <<"3", " ", "t", "o", "f", "u">>
L_100_g_chicken == <<"1", "0", "0", " ", "g", " ", "c", "h", "i", "c", "k", "e", "n">>
L_1p5_cup_Rice == <<"1", ".", "5", " ", "c", "u", "p", " ", "R", "i", "c", "e", " ">>
NN_Energy == <<"E", "n", "e", "r", "g", "y">>
NN_Protein == <<"P", "r", "o", "t", "e", "i", "n">>
NN_Carbohydrate == <<"C", "a", "r", "b", "o", "h", "y", "d", "r", "a", "t", "e", ",", " ",
                     "b", "y", " ", "d", "i", "f", "f", "e", "r", "e", "n", "c", "e">>
NN_Fat == <<"T", "o", "t", "a", "l", " ", "l", "i", "p", "i", "d", " ", "(", "f", "a", "t", ")">>
D_chicken_raw == <<"C", "h", "i", "c", "k", "e", "n", ",", " ", "r", "a", "w">>
D_rice_white == <<"R", "i", "c", "e", ",", " ", "w", "h", "i", "t", "e">>
D_ricotta == <<"R", "i", "c", "e", "r", " ", "c", "h", "e", "e", "s", "e">>

\* a record of the USDA search response's "foods" array
Food(description, cal, pro, carb, fat) ==
  [description |-> description,
   foodNutrients |->
     << [nutrientId |-> 1003, nutrientName |-> NN_Protein, value |-> pro],
        [nutrientId |-> 1004, nutrientName |-> NN_Fat, value |-> fat],
        [nutrientId |-> 1005, nutrientName |-> NN_Carbohydrate, value |-> carb],
        [nutrientId |-> 1008, nutrientName |-> NN_Energy, value |-> cal] >>]

FoodChicken == Food(D_chicken_raw, 165, 31, 0, 4)
FoodRice == Food(D_rice_white, 130, 3, 28, 0)
\* a description that starts with "rice" but not at a word boundary
FoodRicer == Food(D_ricotta, 300, 20, 3, 25)
\* a record that carries none of the four nutrients
FoodBare == [description |-> D_rice_white, foodNutrients |-> << >>]
Foods == {FoodChicken, FoodRice, FoodRicer, FoodBare}

\* resp.ok is FALSE for a timeout, an HTTP error status or an unparsable body
RespError == [ok |-> FALSE, foods |-> << >>]
RespFoods(foods) == [ok |-> TRUE, foods |-> foods]
Responses == {RespError, RespFoods(<< >>), RespFoods(<<FoodRice>>)}

ParsedIngredient(ingredient, quantity, unit) ==
  [ingredient |-> ingredient, quantity |-> quantity, unit |-> unit, modifier |-> None]

\* what the Recipe Editor may put in a recipe (quantities in hundredths)
EditorIngredients ==
  { ParsedIngredient(N_chicken, 10000, U_g),
    ParsedIngredient(N_rice, 100, U_cup) }

SeqsUpTo(S, n) == UNION {[1..k -> S] : k \in 1..n}

EditorLists == SeqsUpTo(EditorIngredients, MaxIngredients)

EditorOutputs ==
  { [recipe_id |-> "r", title |-> "edited", ingredients |-> l,
     directions |-> "edited directions", modifications |-> <<"change">>,
     reasoning |-> "editor"] : l \in EditorLists }

\* the ingredient lists the agent passes to its calculate_nutrition tool
ToolLists == SeqsUpTo(EditorIngredients, 1)

RecipeLines ==
  { <<L_100_g_chicken, L_1p5_cup_Rice>>, <<L_tofu>>, <<L_3_tofu, L_100_g_chicken>> }

Recipes ==
  { [id |-> "r", title |-> "t", ingredients |-> lines, directions |-> "directions"] :
      lines \in RecipeLines }

Constraints(calorie_range, macro_targets) ==
  [calorie_range |-> calorie_range, macro_targets |-> macro_targets]
MacroTargets(protein, carbs, fat) == [protein |-> protein, carbs |-> carbs, fat |-> fat]

ConstraintSets ==
  { Constraints(None, None),
    Constraints(<<400, 600>>, None),
    Constraints(None, Some(MacroTargets(Some(30), None, Some(0)))),
    Constraints(<<5000, 6000>>, Some(MacroTargets(None, Some(10), None))) }

\* ------------------------------- ModificationAgent.process, ingredient lines

RemoveDots(s) == SelectSeq(s, LAMBDA c : c # ".")

\* str.isdigit()
IsDigit(s) == s # << >> /\ \A i \in DOMAIN s : IsDigitChar(s[i])

\* the prefix of s up to its first whitespace character
RECURSIVE TakeWord(_)
TakeWord(s) ==
  IF s = << >> \/ IsSpace(Head(s)) THEN << >> ELSE <<Head(s)>> \o TakeWord(Tail(s))

\* str.split(maxsplit=n) on whitespace
RECURSIVE Split(_, _)
Split(s, maxsplit) ==
  LET rest == LStrip(s)
  IN  IF rest = << >> THEN << >>
      ELSE IF maxsplit = 0 THEN <<rest>>
      ELSE LET w == TakeWord(rest)
           IN  <<w>> \o Split(SubSeq(rest, Len(w) + 1, Len(rest)), maxsplit - 1)

RECURSIVE DigitsValue(_, _)
DigitsValue(s, acc) ==
  IF s = << >> THEN acc ELSE DigitsValue(Tail(s), 10 * acc + DigitVal(Head(s)))

\* float(tok) for a token of digits and dots, in hundredths (exact for at
\* most two decimals); None for the ValueError of a second dot
Float(tok) ==
  LET dots == {i \in DOMAIN tok : tok[i] = "."}
  IN  IF Cardinality(dots) > 1 THEN None
      ELSE IF dots = {} THEN Some(100 * DigitsValue(tok, 0))
      ELSE LET d == CHOOSE i \in dots : TRUE
               whole == SubSeq(tok, 1, d - 1)
               frac == SubSeq(tok \o <<"0", "0">>, d + 1, d + 2)
           IN  Some(100 * DigitsValue(whole, 0) + DigitsValue(frac, 0))

\* process, lines 443-465: the inline conversion of one raw ingredient line,
\* parts being ing_str.split(maxsplit=2)
ConvertParts(ing_str, parts) ==
  IF Len(parts) >= 2 /\ IsDigit(RemoveDots(parts[1])) /\ Float(parts[1]) # None
  THEN ParsedIngredient(IF Len(parts) > 2 THEN parts[3] ELSE parts[2],
                        Float(parts[1])[1],
                        IF Len(parts) > 2 THEN parts[2] ELSE Words.serving)
  ELSE ParsedIngredient(ing_str, 100, Words.serving)

ConvertLine(ing_str) == ConvertParts(ing_str, Split(ing_str, 2))

InitialIngredients(recipe) ==
  [i \in 1..Len(recipe.ingredients) |-> ConvertLine(recipe.ingredients[i])]

\* Every ingredient and every name the bounded inputs can produce
AllIngredients ==
  EditorIngredients
    \cup UNION { {ConvertLine(lines[i]) : i \in DOMAIN lines} : lines \in RecipeLines }
IngredientNames == {ing.ingredient : ing \in AllIngredients} \cup {N_Rice_sp, N_rice, N_chicken, N_white_rice, N_white__rice}

\* --------------------- workflow_nodes/nutrition_calculator.NutritionCalculator
\* (the class modification_agent.py imports)

\* cache_key = ingredient_name.lower().strip()
NodeCacheKey(ingredient_name) == Strip(Lower(ingredient_name))

\* the loop over food.get("foodNutrients", []) matching on nutrientName
RECURSIVE NodeExtractNutrients(_, _)
NodeExtractNutrients(foodNutrients, nutrients) ==
  IF foodNutrients = << >> THEN nutrients
  ELSE LET nutrient == Head(foodNutrients)
           name == Lower(nutrient.nutrientName)
           value == nutrient.value
       IN  NodeExtractNutrients(Tail(foodNutrients),
             IF Contains(name, Words.energy) \/ Contains(name, Words.calorie)
               THEN DictSet(nutrients, "calories", value)
             ELSE IF Contains(name, Words.protein)
               THEN DictSet(nutrients, "protein", value)
             ELSE IF Contains(name, Words.carbohydrate)
               THEN DictSet(nutrients, "carbs", value)
             ELSE IF Contains(name, Words.total_lipid) \/ Contains(name, Words.fat)
               THEN DictSet(nutrients, "fat", value)
             ELSE nutrients)

\* the conversions dict, in insertion order, factors in hundredths
NodeConversions ==
  << <<Words.g, 100>>, <<Words.gram, 100>>, <<Words.kg, 100000>>, <<Words.oz, 2835>>,
     <<Words.lb, 45359>>, <<Words.cup, 24000>>, <<Words.tbsp, 1500>>, <<Words.tablespoon, 1500>>,
     <<Words.tsp, 500>>, <<Words.teaspoon, 500>>, <<Words.ml, 100>>, <<Words.l, 100000>> >>

\* _convert_to_grams: grams in units of 1/10000 g (quantity in hundredths
\* times a factor in hundredths); the first key that is a substring of the
\* unit decides.
NodeConvertToGrams(quantity, unit, ingredient) ==
  LET unit_lower == Lower(unit)
      hits == {i \in DOMAIN NodeConversions : Contains(unit_lower, NodeConversions[i][1])}
  IN  IF hits # {}
      THEN quantity * NodeConversions[Min(hits)][2]
      ELSE quantity * 10000

\* int(c * quantity_grams / 100) for a coefficient c given in hundredths and
\* grams in 1/10000 g: c*grams/10^8, computed without leaving 32 bits
NodeFallbackTerm(c100, grams) ==
  TruncDiv(c100 * (grams \div 100) + (c100 * (grams % 100)) \div 100, 1000000)

NodeFallbackRow(grams, cal, pro, carb, fat) ==
  [calories |-> NodeFallbackTerm(cal, grams), protein |-> NodeFallbackTerm(pro, grams),
   carbs |-> NodeFallbackTerm(carb, grams), fat |-> NodeFallbackTerm(fat, grams)]

\* _estimate_nutrition_fallback
NodeEstimateNutritionFallback(ingredient_name, quantity_grams) ==
  LET name_lower == Lower(ingredient_name)
  IN  IF ContainsAny(name_lower, {Words.chicken, Words.turkey})
        THEN NodeFallbackRow(quantity_grams, 165, 3100, 0, 360)
      ELSE IF ContainsAny(name_lower, {Words.beef, Words.pork})
        THEN NodeFallbackRow(quantity_grams, 250, 2600, 0, 1700)
      ELSE IF ContainsAny(name_lower, {Words.rice, Words.pasta})
        THEN NodeFallbackRow(quantity_grams, 130, 270, 2800, 30)
      ELSE IF ContainsAny(name_lower, {Words.cheese, Words.butter})
        THEN NodeFallbackRow(quantity_grams, 350, 2500, 130, 3300)
      ELSE IF ContainsAny(name_lower, {Words.vegetable, Words.lettuce, Words.spinach, Words.broccoli})
        THEN NodeFallbackRow(quantity_grams, 25, 200, 500, 30)
      ELSE NodeFallbackRow(quantity_grams, 100, 300, 1000, 200)

\* The string functions above, tabulated once over the bounded inputs; the
\* operations below read the tables.
NodeCacheKeyOf == [n \in IngredientNames |-> NodeCacheKey(n)]
NodeNutrientsOf == [f \in Foods |-> NodeExtractNutrients(f.foodNutrients, EmptyDict)]
NodeGramsOf ==
  [ing \in AllIngredients |-> NodeConvertToGrams(ing.quantity, ing.unit, ing.ingredient)]
NodeFallbackOf ==
  [ing \in AllIngredients |-> NodeEstimateNutritionFallback(ing.ingredient, NodeGramsOf[ing])]
InitialIngredientsOf == [r \in Recipes |-> InitialIngredients(r)]

\* _lookup_usda up to the await: a cache hit or a missing API key returns at
\* once, otherwise the HTTP request is sent.
NodeLookupNeedsCall(cch, key_set, cache_key) ==
  cache_key \notin DOMAIN cch /\ key_set

NodeLookupNoCall(cch, key_set, cache_key) ==
  IF cache_key \in DOMAIN cch THEN Some(cch[cache_key]) ELSE None

\* the response's first food is taken and its nutrients cached and returned
NodeLookupFound(cch, cache_key, nutrients) ==
  [data |-> Some(nutrients), cache |-> DictSet(cch, cache_key, nutrients), called |-> TRUE]

\* _lookup_usda from the response on
NodeLookupOnResponse(cch, cache_key, resp) ==
  IF ~resp.ok \/ resp.foods = << >>
  THEN [data |-> None, cache |-> cch, called |-> TRUE]
  ELSE NodeLookupFound(cch, cache_key, NodeNutrientsOf[resp.foods[1]])

\* _lookup_usda as one call, the response given: [data, cache, called]
NodeLookupKey(cch, key_set, cache_key, resp) ==
  IF NodeLookupNeedsCall(cch, key_set, cache_key)
  THEN NodeLookupOnResponse(cch, cache_key, resp)
  ELSE [data |-> NodeLookupNoCall(cch, key_set, cache_key), cache |-> cch,
        called |-> FALSE]

NodeLookupUsda(cch, key_set, ingredient_name, resp) ==
  NodeLookupKey(cch, key_set, NodeCacheKeyOf[ingredient_name], resp)

\* total_calories, total_protein, total_carbs, total_fat, in millionths
ZeroTotals == [calories |-> 0, protein |-> 0, carbs |-> 0, fat |-> 0]
AddTotals(totals, cal, pro, carb, fat) ==
  [calories |-> totals.calories + cal, protein |-> totals.protein + pro,
   carbs |-> totals.carbs + carb, fat |-> totals.fat + fat]

\* `if usda_data:` of calculate: the USDA branch is taken
UsesUsdaData(data) == Truthy(data)

\* total += usda_data.get(..., 0) * scale, scale = quantity_grams / 100.0
NodeAddUsda(totals, usda_data, quantity_grams) ==
  AddTotals(totals, DictGet(usda_data, "calories", 0) * quantity_grams,
            DictGet(usda_data, "protein", 0) * quantity_grams,
            DictGet(usda_data, "carbs", 0) * quantity_grams,
            DictGet(usda_data, "fat", 0) * quantity_grams)

\* total += fallback[...]
NodeAddFallback(totals, fallback) ==
  AddTotals(totals, fallback.calories * 1000000, fallback.protein * 1000000,
            fallback.carbs * 1000000, fallback.fat * 1000000)

\* one pass of the `for ing in ingredients` body of calculate, the lookup's
\* data given: the totals (in millionths) after this ingredient
NodeAccumulate(totals, ing, data) ==
  IF UsesUsdaData(data)
  THEN NodeAddUsda(totals, data[1], NodeGramsOf[ing])
  ELSE NodeAddFallback(totals, NodeFallbackOf[ing])

\* NutritionInfo(calories=int(total_calories), ...)
NutritionInfo(totals) ==
  [calories |-> TruncDiv(totals.calories, 1000000),
   protein |-> TruncDiv(totals.protein, 1000000),
   carbs |-> TruncDiv(totals.carbs, 1000000),
   fat |-> TruncDiv(totals.fat, 1000000)]

\* calculate run to completion with resps[i] the USDA response to the
\* lookup of ingredient i (read only when that lookup misses the cache):
\* [nutrition, cache, calls, datas], datas[i] being what lookup i returned
RECURSIVE NodeCalculateFrom(_, _, _, _, _, _, _, _)
\* the rest of the loop body for ingredient i once its lookup returned usda
NodeCalculateAfterLookup(i, key_set, ingredients, resps, totals, calls, datas, usda) ==
  NodeCalculateFrom(i + 1, usda.cache, key_set, ingredients, resps,
                    NodeAccumulate(totals, ingredients[i], usda.data),
                    IF usda.called THEN calls + 1 ELSE calls,
                    Append(datas, usda.data))

NodeCalculateFrom(i, cch, key_set, ingredients, resps, totals, calls, datas) ==
  IF i > Len(ingredients)
  THEN [nutrition |-> NutritionInfo(totals), cache |-> cch, calls |-> calls,
        datas |-> datas]
  ELSE NodeCalculateAfterLookup(i, key_set, ingredients, resps, totals, calls, datas,
         NodeLookupUsda(cch, key_set, ingredients[i].ingredient, resps[i]))

NodeCalculate(cch, key_set, ingredients, resps) ==
  NodeCalculateFrom(1, cch, key_set, ingredients, resps, ZeroTotals, 0, << >>)

\* The response vectors that differ in effect: a position whose lookup cannot
\* reach the HTTP call (key cached at entry, or no API key) carries RespError.
ResponseVectors(cch, key_set, ingredients) ==
  { resps \in [1..Len(ingredients) -> Responses] :
      \A i \in 1..Len(ingredients) :
        NodeLookupNeedsCall(cch, key_set, NodeCacheKeyOf[ingredients[i].ingredient])
          \/ resps[i] = RespError }

\* ---------------------------------------------- ModificationAgent.process
MaxIterations == 3

\* the {"ingredient", "quantity", "unit"} dicts kept in self._recipe_state
IngredientDicts(ingredients) ==
  [i \in 1..Len(ingredients) |->
     [ingredient |-> ingredients[i].ingredient, quantity |-> ingredients[i].quantity,
      unit |-> ingredients[i].unit]]

\* process, lines 481-492: self._recipe_state before the first iteration
InitialRecipeState(recipe, initial) ==
  [ingredients |-> IngredientDicts(initial), directions |-> recipe.directions,
   modifications |-> << >>]

\* process, lines 553-565: self._recipe_state after an iteration (the
\* directions are left as they were)
UpdatedRecipeState(state, modified_recipe) ==
  [state EXCEPT !.ingredients = IngredientDicts(modified_recipe.ingredients),
                !.modifications = modified_recipe.modifications]

\* (mutant) the prompt reports the issues of the check before the last one
BuildPromptStaleIssues(k, state, nutrition, issue_list) ==
  [iteration |-> k, ingredients |-> state.ingredients, directions |-> state.directions,
   nutrition |-> nutrition, issues |-> issues]

\* process, lines 506-547: what the iteration prompt is built from
BuildPrompt(k, state, nutrition, issue_list) ==
  [iteration |-> k, ingredients |-> state.ingredients, directions |-> state.directions,
   nutrition |-> nutrition, issues |-> issue_list]

\* (mutant) the saved recipe is always rebuilt from the baseline
FinalAlwaysBaseline(final, recipe, initial) ==
  [recipe_id |-> recipe.id, title |-> recipe.title, ingredients |-> initial,
   directions |-> recipe.directions, modifications |-> << >>,
   reasoning |-> "Baseline recipe already met constraints"]

\* process, lines 582-592: the recipe that is saved
FinalModifiedRecipe(final, recipe, initial) ==
  IF final = None
  THEN [recipe_id |-> recipe.id, title |-> recipe.title, ingredients |-> initial,
        directions |-> recipe.directions, modifications |-> << >>,
        reasoning |-> "Baseline recipe already met constraints"]
  ELSE final[1]

\* (mutant) range(1, self._max_iterations): one iteration too few
LoopStopsEarly(k) == k + 1 < MaxIterations
\* (mutant) range(1, self._max_iterations + 2): one iteration too many
LoopRunsOnceMore(k) == k <= MaxIterations

\* `for iteration in range(1, self._max_iterations + 1)`: after iteration k
\* the loop runs another one
LoopContinues(k) == k < MaxIterations

\* (mutant) the loop never looks at constraints_met
BreaksNever(met) == FALSE

\* `if constraints_met: break` (lines 502 and 576)
BreaksOnMet(met) == met

\* what process reports: the loop ended on a passed check, or ran out
Outcome(met) == IF met THEN "CONVERGED" ELSE "EXHAUSTED"

\* (mutant) the nutrition saved is the one the last prompt reported
ReturnNutritionOfPrompt(final, initial, nutrition, met) ==
  /\ saved_output' =
       Some([model_output |-> FinalModifiedRecipe(final, selected_recipe, initial),
             history |-> IF final = None THEN << >> ELSE <<"all_messages">>])
  /\ nutrition_node' = IF prompt = None THEN nutrition ELSE Some(prompt[1].nutrition)
  /\ pc' = Outcome(met)

\* process, lines 594-605: save the output and the nutrition, return
Return(final, initial, nutrition, met) ==
  /\ saved_output' =
       Some([model_output |-> FinalModifiedRecipe(final, selected_recipe, initial),
             history |-> IF final = None THEN << >> ELSE <<"all_messages">>])
  /\ nutrition_node' = nutrition
  /\ pc' = Outcome(met)

\* a calculate() of the loop or of the tool has returned calc
Calculated(ingredients, calc) ==
  /\ cache' = calc.cache
  /\ current_nutrition' = Some(calc.nutrition)
  /\ calc_calls' = calc_calls + 1
  /\ last_calc' = Some([ingredients |-> ingredients, nutrition |-> calc.nutrition,
                        datas |-> calc.datas])

\* a _check_constraints_met of the loop has returned chk
Checked(chk) ==
  /\ constraints_met' = chk.met
  /\ issues' = chk.issues
  /\ check_log' = Append(check_log, chk.met)

\* the loop enters iteration k: the prompt is built and agent.run awaited
StartIteration(k, state, nutrition, issue_list) ==
  /\ iteration' = k
  /\ pc' = "ITERATING"
  /\ editor_calls' = editor_calls + 1
  /\ prompt' = Some(BuildPrompt(k, state, nutrition, issue_list))

\* process from its entry to the first `await self.agent.run`, or to its
\* return when the baseline already meets the constraints (lines 426-550)
ProcessBaseline ==
  /\ pc = "BASELINE"
  /\ \E initial \in {InitialIngredientsOf[selected_recipe]} :
     \E resps \in ResponseVectors(cache, api_key, initial) :
     \E calc \in {NodeCalculate(cache, api_key, initial, resps)} :
     \E chk \in {CheckConstraintsMet(calc.nutrition, normalized)} :
     \E state \in {InitialRecipeState(selected_recipe, initial)} :
       /\ initial_ingredients' = initial
       /\ Calculated(initial, calc)
       /\ Checked(chk)
       /\ recipe_state' = Some(state)
       /\ IF BreaksOnMet(chk.met)
          THEN /\ Return(None, initial, Some(calc.nutrition), chk.met)
               /\ iteration' = 1
               /\ UNCHANGED <<editor_calls, prompt>>
          ELSE /\ StartIteration(1, state, calc.nutrition, chk.issues)
               /\ UNCHANGED <<saved_output, nutrition_node>>
  /\ UNCHANGED <<selected_recipe, normalized, api_key, final_modified_recipe,
                 last_edit, tool_calls, failed_at>>
  /\ UNCHANGED <<checkVars, cacheVars, fnVars>>

\* `result = await self.agent.run(...)` returns a ModifiedRecipe: the rest of
\* the iteration, then the next `agent.run` or the return (lines 550-605)
EditorReturns ==
  /\ pc = "ITERATING"
  /\ \E modified_recipe \in EditorOutputs :
     \E resps \in ResponseVectors(cache, api_key, modified_recipe.ingredients) :
     \E calc \in {NodeCalculate(cache, api_key, modified_recipe.ingredients, resps)} :
     \E chk \in {CheckConstraintsMet(calc.nutrition, normalized)} :
     \E state \in {UpdatedRecipeState(recipe_state[1], modified_recipe)} :
       /\ final_modified_recipe' = Some(modified_recipe)
       /\ last_edit' = Some(modified_recipe)
       /\ recipe_state' = Some(state)
       /\ Calculated(modified_recipe.ingredients, calc)
       /\ Checked(chk)
       /\ IF ~BreaksOnMet(chk.met) /\ LoopContinues(iteration)
          THEN /\ StartIteration(iteration + 1, state, calc.nutrition, chk.issues)
               /\ UNCHANGED <<saved_output, nutrition_node>>
          ELSE /\ Return(Some(modified_recipe), initial_ingredients,
                         Some(calc.nutrition), chk.met)
               /\ UNCHANGED <<iteration, editor_calls, prompt>>
  /\ UNCHANGED <<selected_recipe, normalized, api_key, initial_ingredients, tool_calls,
                 failed_at>>
  /\ UNCHANGED <<checkVars, cacheVars, fnVars>>

\* (mutant) the failed agent.run is caught and the call issued again
EditorFailsRetried ==
  /\ pc = "ITERATING"
  /\ failed_at = None
  /\ failed_at' = Some(editor_calls)
  /\ editor_calls' = editor_calls + 1
  /\ UNCHANGED <<pc, selected_recipe, normalized, api_key, iteration, constraints_met,
                 issues, initial_ingredients, recipe_state, final_modified_recipe,
                 current_nutrition, cache, saved_output, nutrition_node,
                 calc_calls, tool_calls, last_edit, last_calc, prompt, check_log>>
  /\ UNCHANGED <<checkVars, cacheVars, fnVars>>

\* `await self.agent.run(...)` raises (timeout, malformed response, provider
\* error): process has no handler, the exception leaves it (line 550)
EditorFails ==
  /\ pc = "ITERATING"
  /\ pc' = "FAILED"
  /\ failed_at' = Some(editor_calls)
  /\ UNCHANGED <<selected_recipe, normalized, api_key, iteration, constraints_met,
                 issues, initial_ingredients, recipe_state, final_modified_recipe,
                 current_nutrition, cache, saved_output, nutrition_node, editor_calls,
                 calc_calls, tool_calls, last_edit, last_calc, prompt, check_log>>
  /\ UNCHANGED <<checkVars, cacheVars, fnVars>>

\* the ParsedIngredient list the tool builds from the dicts it is given
ToolParsedIngredients(ingredients) ==
  [i \in 1..Len(ingredients) |->
     ParsedIngredient(ingredients[i].ingredient, ingredients[i].quantity,
                      ingredients[i].unit)]

\* the calculate_nutrition tool, called by the agent while agent.run is
\* awaited (lines 85-124)
ToolCalculateNutrition ==
  /\ pc = "ITERATING"
  /\ tool_calls < MaxToolCalls
  /\ \E ingredients \in ToolLists :
     \E parsed_ingredients \in {ToolParsedIngredients(ingredients)} :
     \E resps \in ResponseVectors(cache, api_key, parsed_ingredients) :
     \E calc \in {NodeCalculate(cache, api_key, parsed_ingredients, resps)} :
       Calculated(parsed_ingredients, calc)
  /\ tool_calls' = tool_calls + 1
  /\ UNCHANGED <<pc, selected_recipe, normalized, api_key, iteration, constraints_met,
                 issues, initial_ingredients, recipe_state, final_modified_recipe,
                 saved_output, nutrition_node, editor_calls, last_edit, prompt,
                 check_log, failed_at>>
  /\ UNCHANGED <<checkVars, cacheVars, fnVars>>

InitCheckIdle ==
  /\ chk_nutrition = None
  /\ chk_constraints = None
  /\ chk_result = None

InitFnIdle ==
  /\ conv_args = None
  /\ conv_grams = None
  /\ raw_line = None
  /\ parsed = None
  /\ sum_args = None
  /\ sum_nutrition = None
  /\ converted = None
  /\ qc_args = None
  /\ qc_out = None
  /\ job = None

InitCacheIdle ==
  /\ calc_class = "none"
  /\ calc_cache = << >>
  /\ calc_api_key = FALSE
  /\ task = << >>
  /\ ext_calls = << >>
  /\ produced = << >>
  /\ races = << >>

Init ==
  /\ pc = "BASELINE"
  /\ selected_recipe \in Recipes
  /\ normalized \in ConstraintSets
  /\ api_key \in BOOLEAN
  /\ iteration = 0
  /\ constraints_met = FALSE
  /\ issues = << >>
  /\ initial_ingredients = << >>
  /\ recipe_state = None
  /\ final_modified_recipe = None
  /\ current_nutrition = None
  /\ cache = EmptyDict
  /\ saved_output = None
  /\ nutrition_node = None
  /\ editor_calls = 0
  /\ calc_calls = 0
  /\ tool_calls = 0
  /\ last_edit = None
  /\ last_calc = None
  /\ prompt = None
  /\ check_log = << >>
  /\ failed_at = None
  /\ InitCheckIdle
  /\ InitCacheIdle
  /\ InitFnIdle

Next ==
  \/ ProcessBaseline
  \/ EditorReturns
  \/ EditorFails
  \/ ToolCalculateNutrition

Spec == Init /\ [][Next]_vars

\* every awaited call returns: process is scheduled until its first await,
\* and an awaited agent.run returns a result or raises
FairSpec ==
  Spec /\ WF_vars(ProcessBaseline) /\ WF_vars(EditorReturns \/ EditorFails)

\* ------------------------------------------------ the modification loop
Terminal == {"CONVERGED", "EXHAUSTED", "FAILED"}
Returned == pc \in {"CONVERGED", "EXHAUSTED"}
BaselineMet == check_log # << >> /\ check_log[1]
NeverMet == \A i \in DOMAIN check_log : ~check_log[i]

\* C1: when the check of the baseline nutrition reports met, the Recipe
\* Editor is never invoked and the saved ModifiedRecipe carries the baseline
\* ingredient list and directions with an empty modifications log.
C1_BaselineMetReturnsBaseline ==
  BaselineMet =>
    /\ pc = "CONVERGED"
    /\ editor_calls = 0
    /\ last_edit = None
    /\ saved_output # None
    /\ saved_output[1].model_output.ingredients = InitialIngredients(selected_recipe)
    /\ saved_output[1].model_output.directions = selected_recipe.directions
    /\ saved_output[1].model_output.modifications = << >>

C1_Witness ==
  /\ BaselineMet
  /\ pc = "CONVERGED"
  /\ normalized.calorie_range # None
  /\ saved_output # None

\* C2: a request that has returned with every check (baseline and after each
\* iteration) unmet has invoked the Recipe Editor exactly max_iterations
\* times and reports EXHAUSTED with a non-empty issues list and the
\* ModifiedRecipe of the last Recipe Editor call.
C2_ExhaustedAfterMaxIterations ==
  (Returned /\ NeverMet) =>
    /\ pc = "EXHAUSTED"
    /\ editor_calls = MaxIterations
    /\ Len(check_log) = MaxIterations + 1
    /\ issues # << >>
    /\ last_edit # None
    /\ saved_output # None
    /\ saved_output[1].model_output = last_edit[1]

C2_Witness ==
  /\ pc = "EXHAUSTED"
  /\ NeverMet
  /\ editor_calls = MaxIterations
  /\ saved_output[1].model_output = last_edit[1]

\* C3: a check that reports met is the last thing the loop does: it is the
\* last check of the request, the request is CONVERGED with no Recipe Editor
\* call and no nutrition calculation after it, and the saved recipe and
\* nutrition are the ones that check passed.
C3_ConvergesAtFirstMet ==
  \A i \in DOMAIN check_log :
    check_log[i] =>
      /\ i = Len(check_log)
      /\ pc = "CONVERGED"
      /\ editor_calls = i - 1
      /\ calc_calls = i + tool_calls
      /\ saved_output # None
      /\ last_calc[1].ingredients = saved_output[1].model_output.ingredients
      /\ nutrition_node = Some(last_calc[1].nutrition)
      /\ CheckConstraintsMet(last_calc[1].nutrition, normalized).met

C3_Witness ==
  /\ pc = "CONVERGED"
  /\ editor_calls = 2
  /\ check_log = <<FALSE, FALSE, TRUE>>

\* C4: the states are traversed forward only (BASELINE, ITERATING 1..N, a
\* terminal state that is never left), the Recipe Editor is called at most
\* max_iterations times, and when every awaited call returns the request
\* reaches a terminal outcome.
C4_ForwardStep ==
  /\ pc' # pc =>
       \/ pc = "BASELINE" /\ pc' \in {"ITERATING", "CONVERGED"}
       \/ pc = "ITERATING" /\ pc' \in Terminal
  /\ pc' = "ITERATING" =>
       /\ iteration' \in 1..MaxIterations
       /\ pc = "BASELINE" => iteration' = 1
       /\ pc = "ITERATING" => iteration' \in {iteration, iteration + 1}
  /\ pc \in Terminal => UNCHANGED <<pc, editor_calls, saved_output>>

C4_OneTerminalOutcome ==
  /\ [][C4_ForwardStep]_vars
  /\ [](editor_calls <= MaxIterations)
  /\ <>[](pc \in Terminal)

C4_Witness ==
  /\ pc = "FAILED"
  /\ iteration = MaxIterations
  /\ editor_calls = MaxIterations

\* C5: after a Recipe Editor invocation has failed the request is FAILED, no
\* Recipe Editor call has been made since the failure, and nothing was saved
\* as the outcome of the loop.
C5_EditorFailurePropagates ==
  failed_at # None =>
    /\ pc = "FAILED"
    /\ editor_calls = failed_at[1]
    /\ saved_output = None
    /\ nutrition_node = None

C5_Witness ==
  /\ failed_at # None
  /\ pc = "FAILED"
  /\ iteration = 2

\* what calculate would return if a lookup that returns None added nothing
RECURSIVE ZeroForNotFound(_, _, _, _)
ZeroForNotFound(i, ingredients, datas, totals) ==
  IF i > Len(ingredients) THEN NutritionInfo(totals)
  ELSE ZeroForNotFound(i + 1, ingredients, datas,
                       IF datas[i] = None THEN totals
                       ELSE NodeAccumulate(totals, ingredients[i], datas[i]))

\* C9: in a nutrition calculation of the modification loop an ingredient
\* whose lookup returns not-found adds zero to each of the four totals.
C9_NotFoundContributesZero ==
  last_calc # None =>
    last_calc[1].nutrition =
      ZeroForNotFound(1, last_calc[1].ingredients, last_calc[1].datas, ZeroTotals)

\* ------------------------------------------- _check_constraints_met alone
\* The checker applied to drawn nutrition values and constraints.
CheckMaxCalories == 700

CheckCalorieRanges == {<<500, 600>>, <<80, 100>>, <<300, 400>>}
CheckMacroTargets == {None, Some(MacroTargets(Some(30), None, Some(0)))}
CheckNutritions ==
  { [calories |-> c, protein |-> p, carbs |-> 0, fat |-> 5] :
      c \in 0..CheckMaxCalories, p \in {20, 30} }
CheckConstraints ==
  { Constraints(r, m) : r \in CheckCalorieRanges \cup {None}, m \in CheckMacroTargets }

InitLoopIdle ==
  /\ pc = "IDLE"
  /\ selected_recipe = None
  /\ normalized = None
  /\ api_key = FALSE
  /\ iteration = 0
  /\ constraints_met = FALSE
  /\ issues = << >>
  /\ initial_ingredients = << >>
  /\ recipe_state = None
  /\ final_modified_recipe = None
  /\ current_nutrition = None
  /\ cache = EmptyDict
  /\ saved_output = None
  /\ nutrition_node = None
  /\ editor_calls = 0
  /\ calc_calls = 0
  /\ tool_calls = 0
  /\ last_edit = None
  /\ last_calc = None
  /\ prompt = None
  /\ check_log = << >>
  /\ failed_at = None

InitCheck ==
  /\ chk_nutrition \in CheckNutritions
  /\ chk_constraints \in CheckConstraints
  /\ chk_result = None
  /\ InitLoopIdle
  /\ InitCacheIdle
  /\ InitFnIdle

\* is_met, issues = self._check_constraints_met(nutrition, constraints)
Check ==
  /\ chk_result = None
  /\ chk_result' = Some(CheckConstraintsMet(chk_nutrition, chk_constraints))
  /\ UNCHANGED <<chk_nutrition, chk_constraints, loopVars, cacheVars, fnVars>>

SpecCheck == InitCheck /\ [][Check]_vars

CalorieIssueEmitted ==
  \E i \in DOMAIN chk_result[1].issues : chk_result[1].issues[i].field = "Calories"

\* C10: with calorie_range = [min, max] a calorie issue is emitted iff
\* calories < min * 0.85 or calories > max * 1.15, the two bounds themselves
\* being accepted (in twentieths: 20c < 17min or 20c > 23max).
C10_CalorieWindowExact ==
  (chk_result # None /\ chk_constraints.calorie_range # None) =>
    ( CalorieIssueEmitted <=>
        \/ 20 * chk_nutrition.calories < 17 * chk_constraints.calorie_range[1]
        \/ 20 * chk_nutrition.calories > 23 * chk_constraints.calorie_range[2] )

IssueEmitted(field) ==
  \E i \in DOMAIN chk_result[1].issues : chk_result[1].issues[i].field = field

\* C11: for each specified macro target t and achieved value v an issue is
\* emitted for that field iff abs(v - t) / t > 0.15, i.e. iff v lies outside
\* t * [0.85, 1.15] (in twentieths: 20 * abs(v - t) > 3 * t), whatever the
\* other fields are.
C11_MacroWindowPerField ==
  (chk_result # None /\ chk_constraints.macro_targets # None) =>
    LET targets == chk_constraints.macro_targets[1]
        Decided(target, value, field) ==
          target # None =>
            (IssueEmitted(field) <=> 20 * Abs(value - target[1]) > 3 * target[1])
    IN  /\ Decided(targets.protein, chk_nutrition.protein, "Protein")
        /\ Decided(targets.carbs, chk_nutrition.carbs, "Carbs")
        /\ Decided(targets.fat, chk_nutrition.fat, "Fat")

\* C12: met is true iff the issues list is empty, and a field absent from
\* the constraints produces no issue: without a calorie range there is no
\* calorie issue, without a target for a macro there is no issue for it, and
\* without macro targets the result is the one obtained with every macro
\* value replaced by zero.
C12_MetIffNoIssuesAbsentUnchecked ==
  chk_result # None =>
    /\ chk_result[1].met <=> chk_result[1].issues = << >>
    /\ chk_constraints.calorie_range = None => ~IssueEmitted("Calories")
    /\ chk_constraints.macro_targets = None =>
         /\ ~IssueEmitted("Protein") /\ ~IssueEmitted("Carbs") /\ ~IssueEmitted("Fat")
         /\ chk_result[1] =
              CheckConstraintsMet([chk_nutrition EXCEPT !.protein = 0, !.carbs = 0, !.fat = 0],
                                  chk_constraints)
    /\ chk_constraints.macro_targets # None =>
         /\ chk_constraints.macro_targets[1].protein = None => ~IssueEmitted("Protein")
         /\ chk_constraints.macro_targets[1].carbs = None => ~IssueEmitted("Carbs")
         /\ chk_constraints.macro_targets[1].fat = None => ~IssueEmitted("Fat")

C12_Witness ==
  /\ chk_result # None
  /\ chk_constraints.calorie_range # None
  /\ chk_constraints.macro_targets = None
  /\ chk_result[1].met
  /\ chk_nutrition.protein = 20

\* -------------------------------------- utils/nutrition_calculator.NutritionCalculator
W_pct_word == <<" ", "p", "e", "r", "c", "e", "n", "t">>

\* the chained str.replace calls of _clean_ingredient_name
RECURSIVE UtilsReplaceChars(_)
UtilsReplaceChars(s) ==
  IF s = << >> THEN << >>
  ELSE LET c == Head(s)
       IN  (IF c = "%" THEN W_pct_word
            ELSE IF c \in {"\"", "'"} THEN << >>
            ELSE IF c \in {"/", "\\"} THEN <<" ">>
            ELSE <<c>>) \o UtilsReplaceChars(Tail(s))

\* " ".join(words)
RECURSIVE Join(_)
Join(words) ==
  IF words = << >> THEN << >>
  ELSE IF Len(words) = 1 THEN words[1]
  ELSE words[1] \o <<" ">> \o Join(Tail(words))

\* _clean_ingredient_name
UtilsCleanIngredientName(ingredient_name) ==
  IF ingredient_name = << >> THEN << >>
  ELSE Strip(Join(Split(UtilsReplaceChars(ingredient_name), Len(ingredient_name) * 8)))

\* cache_key = ingredient_name.lower().strip()
UtilsCacheKey(ingredient_name) == Strip(Lower(ingredient_name))

\* desc_lower.startswith(ingredient_lower) at a word boundary
UtilsPrefixMatch(desc_lower, ingredient_lower) ==
  /\ Len(desc_lower) >= Len(ingredient_lower)
  /\ SubSeq(desc_lower, 1, Len(ingredient_lower)) = ingredient_lower
  /\ \/ Len(desc_lower) = Len(ingredient_lower)
     \/ desc_lower[Len(ingredient_lower) + 1] \in {",", " "}

\* (mutant) the first result is taken whatever its description
UtilsSelectFirst(foods, ingredient_lower) == foods[1]

\* the candidate loop: the first prefix match, else the first result
UtilsSelectFood(foods, ingredient_lower) ==
  IF \E i \in DOMAIN foods : UtilsPrefixMatch(Lower(foods[i].description), ingredient_lower)
  THEN foods[Min({i \in DOMAIN foods :
                    UtilsPrefixMatch(Lower(foods[i].description), ingredient_lower)})]
  ELSE foods[1]

\* the loop over food.get("foodNutrients", []) matching on nutrientId
RECURSIVE UtilsExtractNutrients(_, _)
UtilsExtractNutrients(foodNutrients, nutrients) ==
  IF foodNutrients = << >> THEN nutrients
  ELSE UtilsExtractNutrients(Tail(foodNutrients),
         IF Head(foodNutrients).nutrientId = 1008
           THEN DictSet(nutrients, "calories", Head(foodNutrients).value)
         ELSE IF Head(foodNutrients).nutrientId = 1003
           THEN DictSet(nutrients, "protein", Head(foodNutrients).value)
         ELSE IF Head(foodNutrients).nutrientId = 1005
           THEN DictSet(nutrients, "carbs", Head(foodNutrients).value)
         ELSE IF Head(foodNutrients).nutrientId = 1004
           THEN DictSet(nutrients, "fat", Head(foodNutrients).value)
         ELSE nutrients)

\* the nutrients _lookup_usda extracts from a response that lists foods
UtilsNutrients(ingredient_name, foods) ==
  UtilsExtractNutrients(
    UtilsSelectFood(foods, Strip(Lower(UtilsCleanIngredientName(ingredient_name))))
      .foodNutrients,
    EmptyDict)

\* ------------------------------------------ calculators and their caches
\* Coroutines that share a NutritionCalculator or own one each; a task runs
\* calculate() on its list CalcRounds times in a row.
CalcRounds == 2

Tasks == {"t1", "t2"}
Calculators == {"c1", "c2"}
Classes == {"utils", "nodes"}
CacheNames == {N_rice, N_Rice_sp, N_chicken, N_white_rice, N_white__rice}
CacheLists ==
  { <<ParsedIngredient(N_rice, 100, U_cup)>>,
    <<ParsedIngredient(N_Rice_sp, 150, U_cup), ParsedIngredient(N_rice, 100, U_cup)>>,
    <<ParsedIngredient(N_white__rice, 100, U_cup),
      ParsedIngredient(N_white_rice, 100, U_cup)>>,
    <<ParsedIngredient(N_chicken, 10000, U_g), ParsedIngredient(N_rice, 100, U_cup)>> }
CacheFoodLists == { <<FoodRicer, FoodRice>>, <<FoodChicken>> }
CacheResponses ==
  {RespError, RespFoods(<< >>)} \cup {RespFoods(foods) : foods \in CacheFoodLists}

\* the string functions tabulated over the bounded inputs
UtilsCacheKeyOf == [n \in CacheNames |-> UtilsCacheKey(n)]
UtilsNutrientsOf == [n \in CacheNames, foods \in CacheFoodLists |-> UtilsNutrients(n, foods)]
CacheKeys == {UtilsCacheKeyOf[n] : n \in CacheNames} \cup {NodeCacheKeyOf[n] : n \in CacheNames}

\* _lookup_usda of the utils class up to the await
UtilsLookupNeedsCall(cch, key_set, cache_key) ==
  cache_key \notin DOMAIN cch /\ key_set

\* (mutant) a lookup that found nothing throws the cache away
UtilsLookupNotFoundEvicts(cch, cache_key) == [data |-> None, cache |-> EmptyDict]

\* (mutant) a lookup that found nothing caches an empty profile
UtilsLookupNotFoundCached(cch, cache_key) ==
  [data |-> None, cache |-> DictSet(cch, cache_key, EmptyDict)]

\* `return None` after an empty result or in the except branch
UtilsLookupNotFound(cch, cache_key) == [data |-> None, cache |-> cch]

\* (mutant) the nutrients are returned but not stored
UtilsLookupFoundUncached(cch, cache_key, nutrients) ==
  [data |-> Some(nutrients), cache |-> cch]

\* self._cache[cache_key] = nutrients; return nutrients
UtilsLookupFound(cch, cache_key, nutrients) ==
  [data |-> Some(nutrients), cache |-> DictSet(cch, cache_key, nutrients)]

\* _lookup_usda of the utils class from the response on
UtilsLookupOnResponse(cch, ingredient_name, resp) ==
  IF ~resp.ok \/ resp.foods = << >>
  THEN UtilsLookupNotFound(cch, UtilsCacheKeyOf[ingredient_name])
  ELSE UtilsLookupFound(cch, UtilsCacheKeyOf[ingredient_name],
                        UtilsNutrientsOf[ingredient_name, resp.foods])

\* the two classes behind one interface
ClassCacheKey(class, ingredient_name) ==
  IF class = "utils" THEN UtilsCacheKeyOf[ingredient_name]
  ELSE NodeCacheKeyOf[ingredient_name]

ClassNeedsCall(class, cch, key_set, cache_key) ==
  IF class = "utils" THEN UtilsLookupNeedsCall(cch, key_set, cache_key)
  ELSE NodeLookupNeedsCall(cch, key_set, cache_key)

ClassOnResponse(class, cch, ingredient_name, resp) ==
  IF class = "utils" THEN UtilsLookupOnResponse(cch, ingredient_name, resp)
  ELSE NodeLookupOnResponse(cch, NodeCacheKeyOf[ingredient_name], resp)

\* calculate from ingredient i on: the index of the first lookup that reaches
\* the HTTP call, Len + 1 when the loop ends without one
RECURSIVE NextCall(_, _, _, _, _)
NextCall(class, cch, key_set, ingredients, i) ==
  IF i > Len(ingredients) THEN i
  ELSE IF ClassNeedsCall(class, cch, key_set, ClassCacheKey(class, ingredients[i].ingredient))
    THEN i
  ELSE NextCall(class, cch, key_set, ingredients, i + 1)

NoRace == [open |-> FALSE, before |-> 0, pending |-> 0, ok |-> 0]

AwaitedKey(tk) == ClassCacheKey(calc_class, tk.ingredients[tk.i].ingredient)

\* task t, running on cache cch, goes on from ingredient `from` to its next
\* await or to the end of this calculate(): the task, call counts and races
\* after that, given them as they are after what preceded in the same step
GoOn(t, tasks, calls_now, races_now, caches, from) ==
  LET tk == tasks[t]
      c == tk.calc
      j == NextCall(calc_class, caches[c], calc_api_key, tk.ingredients, from)
      k == ClassCacheKey(calc_class, tk.ingredients[j].ingredient)
      last == tk.round >= CalcRounds
  IN  IF j <= Len(tk.ingredients)
      THEN [task |-> [tasks EXCEPT ![t] =
                        [tk EXCEPT !.i = j, !.phase = "await",
                                   !.calls[tk.round] = @ + 1,
                                   !.stale = @ \/ \E c2 \in Calculators \ {c} :
                                                    k \in DOMAIN caches[c2]]],
            ext_calls |-> [calls_now EXCEPT ![c, k] = @ + 1],
            races |-> IF \E t2 \in Tasks \ {t} :
                           /\ tasks[t2].phase = "await"
                           /\ tasks[t2].calc = c
                           /\ AwaitedKey(tasks[t2]) = k
                      THEN [races_now EXCEPT ![c, k] =
                              [open |-> TRUE, before |-> calls_now[c, k] - 1,
                               pending |-> 2, ok |-> 0]]
                      ELSE races_now]
      ELSE [task |-> [tasks EXCEPT ![t] =
                        [tk EXCEPT !.i = 1,
                                   !.phase = IF last THEN "done" ELSE "ready",
                                   !.round = IF last THEN @ ELSE @ + 1]],
            ext_calls |-> calls_now,
            races |-> races_now]

\* a calculate() call of task t starts and runs to its first await
Calculate(t) ==
  /\ task[t].phase = "ready"
  /\ \E st \in {GoOn(t, task, ext_calls, races, calc_cache, 1)} :
       /\ task' = st.task
       /\ ext_calls' = st.ext_calls
       /\ races' = st.races
  /\ UNCHANGED <<calc_class, calc_cache, calc_api_key, produced>>
  /\ UNCHANGED <<loopVars, checkVars, fnVars>>

\* the HTTP call task t awaits returns resp (or raises): the rest of
\* _lookup_usda, then calculate goes on to its next await or to its end
LookupReturns(t, resp) ==
  /\ task[t].phase = "await"
  /\ \E c \in {task[t].calc} :
     \E k \in {AwaitedKey(task[t])} :
     \E r \in {ClassOnResponse(calc_class, calc_cache[c],
                               task[t].ingredients[task[t].i].ingredient, resp)} :
     \E caches \in {[calc_cache EXCEPT ![c] = r.cache]} :
     \E races_now \in {IF races[c, k].pending > 0
                       THEN [races EXCEPT ![c, k].pending = @ - 1,
                                          ![c, k].ok = IF r.data # None THEN @ + 1 ELSE @]
                       ELSE races} :
     \E tasks \in {[task EXCEPT ![t].failed = IF r.data = None THEN @ + 1 ELSE @]} :
     \E st \in {GoOn(t, tasks, ext_calls, races_now, caches, task[t].i + 1)} :
       /\ calc_cache' = caches
       /\ produced' = IF r.data # None
                      THEN [produced EXCEPT ![c, k] = @ \cup {r.data[1]}]
                      ELSE produced
       /\ task' = st.task
       /\ ext_calls' = st.ext_calls
       /\ races' = st.races
  /\ UNCHANGED <<calc_class, calc_api_key>>
  /\ UNCHANGED <<loopVars, checkVars, fnVars>>

TaskInits ==
  { [calc |-> c, ingredients |-> l, round |-> 1, i |-> 1, phase |-> "ready",
     calls |-> [r \in 1..CalcRounds |-> 0], failed |-> 0, stale |-> FALSE] :
      c \in Calculators, l \in CacheLists }

\* every request constructs its own ModificationAgent and with it its own
\* NutritionCalculator, whose cache starts empty; two tasks on one calculator
\* are two coroutines of one request
InitCache ==
  /\ calc_class \in Classes
  /\ calc_api_key \in BOOLEAN
  /\ calc_cache = [c \in Calculators |-> EmptyDict]
  /\ task \in {f \in [Tasks -> TaskInits] : f["t1"].calc = "c1"}
  /\ ext_calls = [c \in Calculators, k \in CacheKeys |-> 0]
  /\ produced = [c \in Calculators, k \in CacheKeys |-> {}]
  /\ races = [c \in Calculators, k \in CacheKeys |-> NoRace]
  /\ InitLoopIdle
  /\ InitCheckIdle
  /\ InitFnIdle

NextCache ==
  \/ \E t \in Tasks : Calculate(t)
  \/ \E t \in Tasks, resp \in CacheResponses : LookupReturns(t, resp)

SpecCache == InitCache /\ [][NextCache]_vars

\* no other coroutine uses the calculator of task t
Alone(t) == \A t2 \in Tasks \ {t} : task[t2].calc # task[t].calc
\* the first two calculate() calls of task t have returned
TwoCallsDone(t) == task[t].round > 2 \/ task[t].phase = "done"
DistinctNames(ingredients) == {ingredients[i].ingredient : i \in DOMAIN ingredients}
DistinctKeys(ingredients) ==
  {ClassCacheKey(calc_class, n) : n \in DistinctNames(ingredients)}

C7_CacheSharedAcrossRequests ==
  \A t \in Tasks : ~task[t].stale

UtilsGramFactor(unit_lower, ing_lower) ==
  IF Contains(unit_lower, Words.g) \/ Contains(unit_lower, Words.gram) THEN 100
  ELSE IF Contains(unit_lower, Words.kg) \/ Contains(unit_lower, Words.kilogram) THEN 100000
  ELSE IF Contains(unit_lower, Words.oz) \/ Contains(unit_lower, Words.ounce) THEN 2835
  ELSE IF Contains(unit_lower, Words.lb) \/ Contains(unit_lower, Words.pound) THEN 45360
  ELSE IF Contains(unit_lower, Words.cup)
    THEN IF ContainsAny(ing_lower, {Words.flour, Words.sugar, Words.powder}) THEN 12000
         ELSE IF ContainsAny(ing_lower, {Words.butter, Words.oil, Words.shortening}) THEN 22500
         ELSE IF ContainsAny(ing_lower, {Words.water, Words.milk, Words.liquid, Words.juice})
           THEN 24000
         ELSE IF ContainsAny(ing_lower, {Words.rice, Words.grain}) THEN 18500
         ELSE 15000
  ELSE IF Contains(unit_lower, Words.tablespoon) \/ Contains(unit_lower, Words.tbsp) THEN 1500
  ELSE IF Contains(unit_lower, Words.teaspoon) \/ Contains(unit_lower, Words.tsp) THEN 500
  ELSE IF Contains(unit_lower, Words.quart) \/ Contains(unit_lower, Words.qt) THEN 94600
  ELSE IF Contains(unit_lower, Words.pint) \/ Contains(unit_lower, Words.pt) THEN 47300
  ELSE IF Contains(unit_lower, Words.can) THEN 40000
  ELSE IF Contains(unit_lower, Words.jar) THEN 35000
  ELSE IF Contains(unit_lower, Words.box) \/ Contains(unit_lower, Words.pkg)
          \/ Contains(unit_lower, Words.package) THEN 30000
  ELSE IF Contains(unit_lower, Words.carton) THEN 50000
  ELSE IF Contains(unit_lower, Words.bottle) THEN 50000
  ELSE IF Contains(unit_lower, Words.small) THEN 15000
  ELSE IF Contains(unit_lower, Words.medium) THEN 25000
  ELSE IF Contains(unit_lower, Words.large) THEN 35000
  ELSE IF Contains(unit_lower, Words.loaf) THEN 60000
  ELSE IF ContainsAny(unit_lower, {Words.slice, Words.piece, Words.clove, Words.serving})
    THEN 5000
  ELSE 10000

\* utils _convert_to_grams: grams in units of 1/10000 g (quantity in
\* hundredths); `unit.lower() if unit else ""` is Lower(unit) for a str
UtilsConvertToGrams(quantity, unit, ingredient_name) ==
  quantity * UtilsGramFactor(Lower(unit), Lower(ingredient_name))

\* _convert_to_grams of either class applied to drawn arguments
ConvMaxQuantity == 3
ConvQuantities == {50 * k : k \in 0..(2 * ConvMaxQuantity)}
ConvUnits ==
  { Words.g, Words.kg, Words.oz, Words.lb, Words.cup, <<"c", "u", "p", "s">>, <<"C", "u", "p">>, Words.tbsp,
    Words.tsp, Words.quart, Words.pint, Words.can, Words.jar, Words.box, Words.carton,
    Words.bottle, Words.small, Words.medium, Words.large, Words.loaf, Words.slice,
    Words.serving, <<"s", "p", "r", "i", "g">>, <<"d", "a", "s", "h">>, << >> }
ConvNames ==
  { Words.chicken, Words.flour, Words.butter, Words.shortening, Words.milk, Words.rice,
    <<"b", "e", "a", "n", "s">>, <<"o", "l", "i", "v", "e", " ", "o", "i", "l">>,
    <<"r", "i", "c", "e", " ", "f", "l", "o", "u", "r">> }

InitConv ==
  /\ conv_args \in [class : Classes, quantity : ConvQuantities, unit : ConvUnits,
                    ingredient_name : ConvNames]
  /\ conv_grams = None
  /\ raw_line = None
  /\ parsed = None
  /\ sum_args = None
  /\ sum_nutrition = None
  /\ converted = None
  /\ qc_args = None
  /\ qc_out = None
  /\ job = None
  /\ InitLoopIdle
  /\ InitCheckIdle
  /\ InitCacheIdle

\* grams = self._convert_to_grams(quantity, unit, ingredient_name)
ConvertToGrams ==
  /\ conv_grams = None
  /\ conv_grams' =
       Some(IF conv_args.class = "utils"
            THEN UtilsConvertToGrams(conv_args.quantity, conv_args.unit,
                                     conv_args.ingredient_name)
            ELSE NodeConvertToGrams(conv_args.quantity, conv_args.unit,
                                    conv_args.ingredient_name))
  /\ UNCHANGED <<conv_args, raw_line, parsed, sum_args, sum_nutrition, converted, qc_args, qc_out, job>>
  /\ UNCHANGED <<loopVars, checkVars, cacheVars>>

SpecConv == InitConv /\ [][ConvertToGrams]_vars

ConvIs(unit, ingredient_name, quantity) ==
  /\ conv_args.unit = unit
  /\ conv_args.ingredient_name = ingredient_name
  /\ conv_args.quantity = quantity

\* the grams per cup, in hundredths, by the rule of C17
CupFactorByName(ing_lower) ==
  IF ContainsAny(ing_lower, {Words.flour, Words.sugar, Words.powder}) THEN 12000
  ELSE IF ContainsAny(ing_lower, {Words.butter, Words.oil}) THEN 22500
  ELSE IF ContainsAny(ing_lower, {Words.water, Words.milk, Words.liquid, Words.juice})
    THEN 24000
  ELSE IF ContainsAny(ing_lower, {Words.rice, Words.grain}) THEN 18500
  ELSE 15000

\* C17: to_grams(1, "lb", "chicken") = 453.6, to_grams(1, "can", "beans") =
\* 400, to_grams(2, "cup", "flour") = 240, and a quantity in cups is
\* multiplied by 120 for flour/sugar/powder, else 225 for butter/oil, else 240
\* for a liquid, else 185 for rice/grain, else 150.
C17_ExamplesAndCupDensity ==
  conv_grams # None =>
    /\ ConvIs(Words.lb, Words.chicken, 100) => conv_grams[1] = 4536000
    /\ ConvIs(Words.can, <<"b", "e", "a", "n", "s">>, 100) => conv_grams[1] = 4000000
    /\ ConvIs(Words.cup, Words.flour, 200) => conv_grams[1] = 2400000
    /\ conv_args.unit = Words.cup =>
         conv_grams[1] = conv_args.quantity * CupFactorByName(Lower(conv_args.ingredient_name))

\* C18: for the weight units the result is the quantity times 1 (g), 1000
\* (kg), 28.35 (oz) or 453.6 (lb), whatever the ingredient name.
C18_WeightUnitsMultiply ==
  conv_grams # None =>
    /\ conv_args.unit = Words.g => conv_grams[1] = conv_args.quantity * 100
    /\ conv_args.unit = Words.kg => conv_grams[1] = conv_args.quantity * 100000
    /\ conv_args.unit = Words.oz => conv_grams[1] = conv_args.quantity * 2835
    /\ conv_args.unit = Words.lb => conv_grams[1] = conv_args.quantity * 45360

\* C19: the utils converter maps can, jar, box, carton, bottle to the
\* quantity times 400, 350, 300, 500, 500 and small, medium, large to the
\* quantity times 150, 250, 350.
C19_ContainersAndSizes ==
  (conv_grams # None /\ conv_args.class = "utils") =>
    /\ conv_args.unit = Words.can => conv_grams[1] = conv_args.quantity * 40000
    /\ conv_args.unit = Words.jar => conv_grams[1] = conv_args.quantity * 35000
    /\ conv_args.unit = Words.box => conv_grams[1] = conv_args.quantity * 30000
    /\ conv_args.unit = Words.carton => conv_grams[1] = conv_args.quantity * 50000
    /\ conv_args.unit = Words.bottle => conv_grams[1] = conv_args.quantity * 50000
    /\ conv_args.unit = Words.small => conv_grams[1] = conv_args.quantity * 15000
    /\ conv_args.unit = Words.medium => conv_grams[1] = conv_args.quantity * 25000
    /\ conv_args.unit = Words.large => conv_grams[1] = conv_args.quantity * 35000

\* the weight, volumetric, container and size units
RecognizedUnits ==
  { Words.g, Words.gram, Words.grams, Words.kg, Words.kilogram, Words.oz, Words.ounce,
    Words.lb, Words.pound, Words.cup, <<"c", "u", "p", "s">>, Words.tbsp, Words.tablespoon, Words.tsp,
    Words.teaspoon, Words.quart, Words.qt, Words.pint, Words.pt, Words.can, Words.jar,
    Words.box, Words.carton, Words.bottle, Words.small, Words.medium, Words.large }

\* C20: the utils converter returns a number for every quantity, unit and
\* name, and the quantity times 100 for every unit that is not a weight,
\* volumetric, container or size unit.
C20_UnrecognizedUnitsTimes100 ==
  (conv_grams # None /\ conv_args.class = "utils") =>
    /\ conv_grams[1] \in Nat
    /\ Lower(conv_args.unit) \notin RecognizedUnits =>
         conv_grams[1] = conv_args.quantity * 10000

\* --------------------------------------------------------- utils calculate
\* scale of calculate in millionths (quantity in hundredths): quantity / 100
\* for a gram unit, else _convert_to_grams(...) / 100
UtilsScale(ing) ==
  IF Lower(ing.unit) \in {Words.g, Words.gram, Words.grams}
  THEN ing.quantity * 100
  ELSE UtilsConvertToGrams(ing.quantity, ing.unit, ing.ingredient)

\* (mutant) an ingredient without data is booked as one unit of debt
UtilsAccumulateMissingAsDebt(totals, ing, usda_data) ==
  IF ~Truthy(usda_data)
  THEN AddTotals(totals, -1000000, -1000000, -1000000, -1000000)
  ELSE AddTotals(totals, DictGet(usda_data[1], "calories", 0) * UtilsScale(ing),
                 DictGet(usda_data[1], "protein", 0) * UtilsScale(ing),
                 DictGet(usda_data[1], "carbs", 0) * UtilsScale(ing),
                 DictGet(usda_data[1], "fat", 0) * UtilsScale(ing))

\* one pass of the `for ing in ingredients` body of the utils calculate,
\* usda_data being what the lookup returned: the totals in millionths
UtilsAccumulate(totals, ing, usda_data) ==
  IF ~Truthy(usda_data)
  THEN totals
  ELSE AddTotals(totals, DictGet(usda_data[1], "calories", 0) * UtilsScale(ing),
                 DictGet(usda_data[1], "protein", 0) * UtilsScale(ing),
                 DictGet(usda_data[1], "carbs", 0) * UtilsScale(ing),
                 DictGet(usda_data[1], "fat", 0) * UtilsScale(ing))

RECURSIVE UtilsCalculateFrom(_, _, _, _)
UtilsCalculateFrom(i, ingredients, datas, totals) ==
  IF i > Len(ingredients) THEN totals
  ELSE UtilsCalculateFrom(i + 1, ingredients, datas,
                          UtilsAccumulate(totals, ingredients[i], datas[i]))

\* int(total) of a sum of doubles, total being the exact sum in millionths:
\* where the exact sum is a whole number the double sum can lie just below it
IntOfTotal(total) ==
  IF total > 0 /\ total % 1000000 = 0
  THEN {total \div 1000000 - 1, total \div 1000000}
  ELSE {TruncDiv(total, 1000000)}

\* NutritionInfo(calories=int(total_calories), ...) of the utils calculate
UtilsNutritionInfos(totals) ==
  [calories : IntOfTotal(totals.calories), protein : IntOfTotal(totals.protein),
   carbs : IntOfTotal(totals.carbs), fat : IntOfTotal(totals.fat)]

\* the utils calculate run to completion, datas[i] being what
\* _lookup_usda returned for ingredient i: the results it can return
UtilsCalculate(ingredients, datas) ==
  UtilsNutritionInfos(UtilsCalculateFrom(1, ingredients, datas, ZeroTotals))

\* calculate applied to drawn ingredient lists and lookup outcomes
SumMaxIngredients == 2
SumIngredients ==
  { ParsedIngredient(N_rice, 100, U_cup),
    ParsedIngredient(N_chicken, 12050, U_g),
    ParsedIngredient(<<"o", "l", "i", "v", "e", " ", "o", "i", "l">>, 200, Words.tbsp),
    ParsedIngredient(Words.flour, 0, U_cup),
    ParsedIngredient(<<"e", "g", "g">>, 300, Words.large),
    ParsedIngredient(<<"s", "a", "l", "t">>, 25, Words.serving) }
SumDatas ==
  { None, Some(EmptyDict), Some(DictSet(EmptyDict, "calories", 120)),
    Some(UtilsExtractNutrients(FoodChicken.foodNutrients, EmptyDict)),
    Some(UtilsExtractNutrients(FoodRice.foodNutrients, EmptyDict)),
    Some(UtilsExtractNutrients(FoodRicer.foodNutrients, EmptyDict)) }
SumLists ==
  UNION { [1..n -> SumIngredients] : n \in 0..SumMaxIngredients }

InitSum ==
  /\ \E l \in SumLists : \E d \in [DOMAIN l -> SumDatas] :
       sum_args = [ingredients |-> l, datas |-> d]
  /\ sum_nutrition = None
  /\ conv_args = None
  /\ conv_grams = None
  /\ raw_line = None
  /\ parsed = None
  /\ converted = None
  /\ qc_args = None
  /\ qc_out = None
  /\ job = None
  /\ InitLoopIdle
  /\ InitCheckIdle
  /\ InitCacheIdle

\* nutrition = await calculator.calculate(ingredients)
Summate ==
  /\ sum_nutrition = None
  /\ \E nutrition \in UtilsCalculate(sum_args.ingredients, sum_args.datas) :
       sum_nutrition' = Some(nutrition)
  /\ UNCHANGED <<sum_args, conv_args, conv_grams, raw_line, parsed, converted, qc_args, qc_out, job>>
  /\ UNCHANGED <<loopVars, checkVars, cacheVars>>

SpecSum == InitSum /\ [][Summate]_vars

\* C13: whatever lookups succeed or fail, every field of the NutritionInfo
\* the utils calculate returns for a list of ingredients with non-negative
\* quantities and profile values is a non-negative integer.
C13_FieldsNonNegativeIntegers ==
  sum_nutrition # None =>
    /\ sum_nutrition[1].calories \in Nat
    /\ sum_nutrition[1].protein \in Nat
    /\ sum_nutrition[1].carbs \in Nat
    /\ sum_nutrition[1].fat \in Nat

\* a list with one ingredient found and one not found has been summed
C13_Witness ==
  /\ sum_nutrition # None
  /\ Len(sum_args.ingredients) = 2
  /\ sum_args.datas[1] = None
  /\ Truthy(sum_args.datas[2])
  /\ sum_nutrition[1].calories > 0

\* --------------------------------------------- utils/ingredient_parser.py
\* Strings are free of newlines, so `.` of a pattern matches every character.
\* A quantity is the exact ratio num/den (den > 0) of the double the code
\* computes.
Ratio(num, den) == [num |-> num, den |-> den]

\* float(tok) for a token made of an optional sign, digits and at most one
\* point; None for the ValueError of every other token
FloatRatio(tok) ==
  LET s == Strip(tok)
      body == IF s # << >> /\ Head(s) \in {"-", "+"} THEN Tail(s) ELSE s
      dots == {i \in DOMAIN body : body[i] = "."}
      digits == SelectSeq(body, IsDigitChar)
  IN  IF digits = << >> \/ Cardinality(dots) > 1
         \/ Len(digits) + Cardinality(dots) # Len(body)
      THEN None
      ELSE Some(Ratio((IF Head(s) = "-" THEN -1 ELSE 1) * DigitsValue(digits, 0),
                      IF dots = {} THEN 1 ELSE 10 ^ (Len(body) - Min(dots))))

\* _parse_quantity: a fraction when the string holds one "/" between two
\* numbers, the second not zero; else float(qty_str); else 1.0
ParseQuantity(qty_str) ==
  LET s == Strip(qty_str)
      slashes == {i \in DOMAIN s : s[i] = "/"}
      numerator == FloatRatio(SubSeq(s, 1, Min(slashes) - 1))
      denominator == FloatRatio(SubSeq(s, Min(slashes) + 1, Len(s)))
  IN  IF Cardinality(slashes) = 1 /\ numerator # None /\ denominator # None
         /\ denominator[1].num # 0
      THEN IF denominator[1].num > 0
           THEN Ratio(numerator[1].num * denominator[1].den,
                      numerator[1].den * denominator[1].num)
           ELSE Ratio(-(numerator[1].num * denominator[1].den),
                      -(numerator[1].den * denominator[1].num))
      ELSE IF FloatRatio(s) # None THEN FloatRatio(s)[1]
      ELSE Ratio(1, 1)

\* \w of a pattern
LowerSet == {LowerChars[i] : i \in DOMAIN LowerChars}
IsWordChar(c) == c \in UpperSet \/ c \in LowerSet \/ IsDigitChar(c) \/ c = "_"

RECURSIVE RunEnd(_, _)
RunEnd(s, i) == IF i < Len(s) /\ IsWordChar(s[i + 1]) THEN RunEnd(s, i + 1) ELSE i
RECURSIVE RunStart(_, _)
RunStart(s, j) == IF j > 1 /\ IsWordChar(s[j - 1]) THEN RunStart(s, j - 1) ELSE j

\* the index at which the last whitespace-free run of s starts
RECURSIVE LastWordStart(_, _)
LastWordStart(s, j) == IF j > 1 /\ ~IsSpace(s[j - 1]) THEN LastWordStart(s, j - 1) ELSE j

\* the alternatives of the first modifier pattern
ModifierWords ==
  { <<"o", "p", "t", "i", "o", "n", "a", "l">>, <<"d", "i", "v", "i", "d", "e", "d">>, <<"t", "o", " ", "t", "a", "s", "t", "e">>, <<"c", "o", "o", "k", "e", "d">>, <<"c", "r", "u", "m", "b", "l", "e", "d">>, <<"d", "i", "c", "e", "d">>, <<"c", "h", "o", "p", "p", "e", "d">>, <<"s", "l", "i", "c", "e", "d">>,
    <<"c", "u", "b", "e", "d">>, <<"c", "u", "t", " ", "u", "p">>, <<"b", "e", "a", "t", "e", "n">>, <<"d", "r", "a", "i", "n", "e", "d">>, <<"t", "h", "a", "w", "e", "d">>, <<"c", "r", "u", "s", "h", "e", "d">> }

\* the alternative of the first modifier pattern that rest starts with
ModifierAt(rest) ==
  {w \in ModifierWords : Len(rest) >= Len(w) /\ Lower(SubSeq(rest, 1, Len(w))) = w}

\* the loop over modifier_patterns: [modifier, ing_str]
ExtractModifier(ing_str) ==
  LET commas == {i \in DOMAIN ing_str :
                   /\ ing_str[i] = ","
                   /\ ModifierAt(LStrip(SubSeq(ing_str, i + 1, Len(ing_str)))) # {}}
      rest == LStrip(SubSeq(ing_str, Min(commas) + 1, Len(ing_str)))
      k == LastWordStart(ing_str, Len(ing_str) + 1)
  IN  IF commas # {}
      THEN [modifier |-> Some(SubSeq(rest, 1, Len(CHOOSE w \in ModifierAt(rest) : TRUE))),
            ing_str |-> Strip(SubSeq(ing_str, 1, Min(commas) - 1))]
      ELSE IF k > 1 /\ k <= Len(ing_str)
              /\ Lower(SubSeq(ing_str, k, Len(ing_str))) \in {<<"o", "p", "t", "i", "o", "n", "a", "l">>, <<"d", "i", "v", "i", "d", "e", "d">>}
      THEN [modifier |-> Some(SubSeq(ing_str, k, Len(ing_str))),
            ing_str |-> Strip(SubSeq(ing_str, 1, k - 1))]
      ELSE [modifier |-> None, ing_str |-> ing_str]

\* re.sub(r'\b(c|oz|lb|lbs|pkg|Tbsp|tbsp|Tsp|tsp)\.', r'\1', s), from index j
RECURSIVE RemoveUnitPeriods(_, _)
RemoveUnitPeriods(s, j) ==
  IF j > Len(s) THEN << >>
  ELSE (IF s[j] = "." /\ j > 1 /\ IsWordChar(s[j - 1])
           /\ SubSeq(s, RunStart(s, j - 1), j - 1)
                \in {<<"c">>, <<"o", "z">>, <<"l", "b">>, <<"l", "b", "s">>, <<"p", "k", "g">>, <<"T", "b", "s", "p">>, <<"t", "b", "s", "p">>, <<"T", "s", "p">>, <<"t", "s", "p">>}
        THEN << >> ELSE <<s[j]>>) \o RemoveUnitPeriods(s, j + 1)

\* re.sub(r'(\d+/\d+|[0-9.]+)([A-Z][a-z]+)', r'\1 \2', s), from index j
RECURSIVE InsertSpaces(_, _)
InsertSpaces(s, j) ==
  IF j > Len(s) THEN << >>
  ELSE (IF j + 2 <= Len(s) /\ (IsDigitChar(s[j]) \/ s[j] = ".")
           /\ s[j + 1] \in UpperSet /\ s[j + 2] \in LowerSet
        THEN <<s[j], " ">> ELSE <<s[j]>>) \o InsertSpaces(s, j + 1)

\* re.sub of line 60: a final \s+[Tt]o\s+[Tt]aste\s* is removed
RemoveToTaste(s) ==
  LET t == RStrip(s)
      k == LastWordStart(t, Len(t) + 1)
      b == RStrip(SubSeq(t, 1, k - 1))
      k2 == LastWordStart(b, Len(b) + 1)
  IN  IF /\ SubSeq(t, k, Len(t)) \in {<<"t", "a", "s", "t", "e">>, <<"T", "a", "s", "t", "e">>}
         /\ Len(b) < k - 1
         /\ SubSeq(b, k2, Len(b)) \in {<<"t", "o">>, <<"T", "o">>}
         /\ k2 > 1
      THEN RStrip(SubSeq(b, 1, k2 - 1))
      ELSE s

\* re.sub(r'\bword\b', repl, s, flags=re.IGNORECASE), from index i
RECURSIVE ReplaceWord(_, _, _, _)
ReplaceWord(s, i, word, repl) ==
  IF i > Len(s) THEN << >>
  ELSE IF ~IsWordChar(s[i]) THEN <<s[i]>> \o ReplaceWord(s, i + 1, word, repl)
  ELSE (IF Lower(SubSeq(s, i, RunEnd(s, i))) = word THEN repl
        ELSE SubSeq(s, i, RunEnd(s, i))) \o ReplaceWord(s, RunEnd(s, i) + 1, word, repl)

\* the preprocessing of lines 54-68
Preprocess(ing_str) ==
  Strip(ReplaceWord(ReplaceWord(ReplaceWord(ReplaceWord(
          RemoveToTaste(InsertSpaces(RemoveUnitPeriods(ing_str, 1), 1)),
          1, <<"t", "b", "s">>, <<"T", "b", "s", "p">>), 1, <<"c">>, <<"c", "u", "p">>), 1, <<"t", "b", "s", "p">>, <<"t", "a", "b", "l", "e", "s", "p", "o", "o", "n">>), 1, <<"t", "s", "p">>, <<"t", "e", "a", "s", "p", "o", "o", "n">>))

\* str.replace(old, new)
RECURSIVE Replace(_, _, _)
Replace(s, old, new) ==
  IF Len(s) < Len(old) THEN s
  ELSE IF SubSeq(s, 1, Len(old)) = old
    THEN new \o Replace(SubSeq(s, Len(old) + 1, Len(s)), old, new)
  ELSE <<Head(s)>> \o Replace(Tail(s), old, new)

\* `x or original_str`
OrOriginal(x, original_str) == IF x = << >> THEN original_str ELSE x

ParsedWith(ingredient, quantity, unit, modifier) ==
  [ParsedIngredient(ingredient, quantity, unit) EXCEPT !.modifier = modifier]

\* the longest prefix of digits
RECURSIVE Digits(_)
Digits(s) ==
  IF s # << >> /\ IsDigitChar(Head(s)) THEN <<Head(s)>> \o Digits(Tail(s)) ELSE << >>

Drop(s, n) == SubSeq(s, n + 1, Len(s))

\* the length of the match of \d+/\d+ at the start of s, 0 without a match
FractionLen(s) ==
  IF Digits(s) # << >> /\ Len(s) > Len(Digits(s)) /\ s[Len(Digits(s)) + 1] = "/"
     /\ Digits(Drop(s, Len(Digits(s)) + 1)) # << >>
  THEN Len(Digits(s)) + 1 + Len(Digits(Drop(s, Len(Digits(s)) + 1)))
  ELSE 0

\* \s+(.+) matched against all of r: None, or group (.+)
SpaceThenRest(r) ==
  IF Len(r) < 2 \/ ~IsSpace(r[1]) THEN None
  ELSE IF LStrip(r) # << >> THEN Some(LStrip(r))
  ELSE Some(<<r[Len(r)]>>)

\* the parenthesised group re.search(r'\(([^)]+)\)') finds: None or <<i, j>>,
\* the indices of its parentheses
ParenMatch(s) ==
  LET opens == {i \in DOMAIN s : /\ s[i] = "("
                                 /\ i < Len(s) /\ s[i + 1] # ")"
                                 /\ \E j \in (i + 2)..Len(s) : s[j] = ")"}
  IN  IF opens = {} THEN None
      ELSE <<Min(opens), Min({j \in (Min(opens) + 2)..Len(s) : s[j] = ")"})>>

\* lines 126-135 (and 147-156, 172-181): unit and ingredient from the rest
FromRest(original_str, quantity, rest, modifier) ==
  LET rest_parts == Split(rest, 1)
  IN  ParsedWith(OrOriginal(Strip(IF Len(rest_parts) > 1 THEN rest_parts[2] ELSE << >>),
                        original_str),
             quantity,
             IF rest_parts # << >> THEN rest_parts[1] ELSE Words.serving,
             modifier)

\* unit_list of lines 228-235
UnitList ==
  { <<"c", "u", "p">>, <<"c", "u", "p", "s">>, <<"t", "a", "b", "l", "e", "s", "p", "o", "o", "n">>, <<"t", "a", "b", "l", "e", "s", "p", "o", "o", "n", "s">>,
    <<"t", "e", "a", "s", "p", "o", "o", "n">>, <<"t", "e", "a", "s", "p", "o", "o", "n", "s">>, <<"o", "z">>, <<"o", "u", "n", "c", "e">>,
    <<"o", "u", "n", "c", "e", "s">>, <<"l", "b">>, <<"l", "b", "s">>, <<"p", "o", "u", "n", "d">>,
    <<"p", "o", "u", "n", "d", "s">>, <<"g">>, <<"g", "r", "a", "m">>, <<"g", "r", "a", "m", "s">>,
    <<"k", "g">>, <<"k", "i", "l", "o", "g", "r", "a", "m">>, <<"k", "i", "l", "o", "g", "r", "a", "m", "s">>, <<"m", "l">>,
    <<"m", "i", "l", "l", "i", "l", "i", "t", "e", "r">>, <<"m", "i", "l", "l", "i", "l", "i", "t", "e", "r", "s">>, <<"l">>, <<"l", "i", "t", "e", "r">>,
    <<"l", "i", "t", "e", "r", "s">>, <<"s", "l", "i", "c", "e">>, <<"s", "l", "i", "c", "e", "s">>, <<"c", "l", "o", "v", "e">>,
    <<"c", "l", "o", "v", "e", "s">>, <<"p", "i", "e", "c", "e">>, <<"p", "i", "e", "c", "e", "s">>, <<"c", "a", "n">>,
    <<"c", "a", "n", "s">>, <<"j", "a", "r">>, <<"j", "a", "r", "s">>, <<"b", "o", "x">>,
    <<"b", "o", "x", "e", "s">>, <<"p", "k", "g">>, <<"p", "a", "c", "k", "a", "g", "e">>, <<"p", "a", "c", "k", "a", "g", "e", "s">>,
    <<"c", "o", "n", "t", "a", "i", "n", "e", "r">>, <<"c", "o", "n", "t", "a", "i", "n", "e", "r", "s">>, <<"c", "a", "r", "t", "o", "n">>, <<"c", "a", "r", "t", "o", "n", "s">>,
    <<"b", "o", "t", "t", "l", "e">>, <<"b", "o", "t", "t", "l", "e", "s">>, <<"q", "t">>, <<"q", "u", "a", "r", "t">>,
    <<"q", "u", "a", "r", "t", "s">>, <<"p", "i", "n", "t">>, <<"p", "i", "n", "t", "s">>, <<"p", "t">> }

\* lines 214-262: standard parsing and the fallback
ParseStandard(original_str, ing_str, modifier) ==
  LET parts == Split(ing_str, 3)
  IN  IF parts = << >> THEN ParsedWith(original_str, Ratio(1, 1), Words.serving, modifier)
      ELSE IF Len(parts) >= 3
        THEN ParsedWith(OrOriginal(Strip(Join(Drop(parts, 2))), original_str),
                    ParseQuantity(parts[1]), parts[2], modifier)
      ELSE IF Len(parts) = 2
        THEN IF Lower(parts[2]) \in UnitList
             THEN ParsedWith(original_str, ParseQuantity(parts[1]), parts[2], modifier)
             ELSE ParsedWith(OrOriginal(Strip(parts[2]), original_str),
                         ParseQuantity(parts[1]), Words.serving, modifier)
      ELSE ParsedWith(original_str, ParseQuantity(parts[1]), Words.serving, modifier)

\* lines 186-211: a size descriptor after the quantity
ParseSize(original_str, ing_str, modifier) ==
  LET q == IF FractionLen(ing_str) > 0 THEN FractionLen(ing_str) ELSE Len(Digits(ing_str))
      after == IF q > 0 /\ Len(ing_str) > q /\ IsSpace(ing_str[q + 1])
               THEN LStrip(Drop(ing_str, q)) ELSE << >>
      size == TakeWord(after)
      rest == SpaceThenRest(Drop(after, Len(size)))
      rest_parts == Split(rest[1], 1)
  IN  IF Lower(size) \in {<<"s", "m", "a", "l", "l">>, <<"l", "a", "r", "g", "e">>, <<"m", "e", "d", "i", "u", "m">>, <<"q", "t">>, <<"q", "u", "a", "r", "t">>, <<"p", "i", "n", "t">>, <<"p", "t">>}
         /\ rest # None
      THEN IF rest_parts # << >>
              /\ Lower(rest_parts[1]) \in {<<"c", "a", "n">>, <<"j", "a", "r">>, <<"b", "o", "x">>, <<"p", "k", "g">>, <<"p", "a", "c", "k", "a", "g", "e">>,
                                           <<"c", "o", "n", "t", "a", "i", "n", "e", "r">>, <<"c", "a", "r", "t", "o", "n">>}
           THEN ParsedWith(OrOriginal(Strip(IF Len(rest_parts) > 1 THEN rest_parts[2]
                                        ELSE << >>), original_str),
                       ParseQuantity(SubSeq(ing_str, 1, q)),
                       size \o <<" ">> \o rest_parts[1], modifier)
           ELSE ParsedWith(OrOriginal(Strip(rest[1]), original_str),
                       ParseQuantity(SubSeq(ing_str, 1, q)), size, modifier)
      ELSE ParseStandard(original_str, ing_str, modifier)

\* lines 113-183: a mixed number, a fraction, a two-digit legacy fraction
ParseNumbers(original_str, ing_str, modifier) ==
  LET whole == Digits(ing_str)
      after == IF whole # << >> /\ Len(ing_str) > Len(whole)
                  /\ IsSpace(ing_str[Len(whole) + 1])
               THEN LStrip(Drop(ing_str, Len(whole))) ELSE << >>
      mixed == IF FractionLen(after) > 0
               THEN SpaceThenRest(Drop(after, FractionLen(after))) ELSE None
      simple == IF FractionLen(ing_str) > 0
                THEN SpaceThenRest(Drop(ing_str, FractionLen(ing_str))) ELSE None
      legacy == IF whole # << >> THEN SpaceThenRest(Drop(ing_str, Len(whole))) ELSE None
      fraction_val == ParseQuantity(SubSeq(after, 1, FractionLen(after)))
  IN  IF mixed # None
      THEN FromRest(original_str,
                    Ratio(DigitsValue(whole, 0) * fraction_val.den + fraction_val.num,
                          fraction_val.den),
                    mixed[1], modifier)
      ELSE IF simple # None
      THEN FromRest(original_str, ParseQuantity(SubSeq(ing_str, 1, FractionLen(ing_str))),
                    simple[1], modifier)
      ELSE IF legacy # None /\ Len(whole) = 2 /\ whole[2] \in {"2", "4", "8"}
      THEN FromRest(original_str, Ratio(DigitVal(whole[1]), DigitVal(whole[2])),
                    legacy[1], modifier)
      ELSE ParseSize(original_str, ing_str, modifier)

\* lines 74-111: a parenthesised group, m being its match in ing_str
ParseParens(original_str, ing_str, modifier) ==
  LET m == ParenMatch(ing_str)
      content_in_parens == SubSeq(ing_str, m[1] + 1, m[2] - 1)
      parts == Split(Strip(SubSeq(ing_str, 1, m[1] - 1) \o Drop(ing_str, m[2])), 2)
  IN  IF m = None THEN ParseNumbers(original_str, ing_str, modifier)
      ELSE IF \E i \in DOMAIN content_in_parens : IsDigitChar(content_in_parens[i])
        THEN IF parts = << >> THEN ParseNumbers(original_str, ing_str, modifier)
             ELSE ParsedWith(OrOriginal(IF Len(parts) > 2 THEN Join(Split(parts[3], -1))
                                    ELSE << >>, original_str),
                         ParseQuantity(parts[1]),
                         IF Len(parts) >= 2
                         THEN Strip(content_in_parens \o <<" ">> \o parts[2])
                         ELSE Strip(content_in_parens),
                         modifier)
      ELSE ParseNumbers(original_str,
                        Replace(ing_str, <<"(">> \o content_in_parens \o <<")">>,
                                content_in_parens),
                        modifier)

\* lines 36-68: m the modifier and the string left of it, then preprocessing
ParseStripped(original_str, m) ==
  ParseParens(original_str, Preprocess(m.ing_str), m.modifier)

\* parse_ingredient
ParseIngredient(ing_str) ==
  IF Strip(ing_str) = << >>
  THEN ParsedWith(ing_str, Ratio(1, 1), Words.serving, None)
  ELSE ParseStripped(ing_str, ExtractModifier(Strip(ing_str)))

\* parse_ingredient applied to drawn strings: a quantity part, a unit part
\* and a name part joined by blanks, and some strings of other shapes
LineQuantities ==
  { << >>, <<"2">>, <<"0">>, <<"-", "1">>, <<"1", "/", "4">>, <<"0", "/", "2">>, <<"1", "/", "0">>, <<"2", " ", "1", "/", "2">>, <<"1", "2">>, <<"2", ".", "5">>, <<"1">> }
LineUnits == { << >>, <<"c", "u", "p">>, <<"c", "u", "p", "s">>, <<"c", ".">>, <<"t", "s", "p">>, <<"T", "b", "s", "p", ".">>, <<"l", "a", "r", "g", "e">>, <<"s", "m", "a", "l", "l", " ", "c", "a", "n">> }
LineNames ==
  { <<"f", "l", "o", "u", "r">>, <<"s", "a", "l", "t">>, <<"o", "l", "i", "v", "e", " ", "o", "i", "l">>, <<"s", "a", "l", "t", " ", "a", "n", "d", " ", "p", "e", "p", "p", "e", "r">>, <<"m", "i", "l", "k", ",", " ", "d", "i", "v", "i", "d", "e", "d">>, <<"n", "u", "t", "s", " ", "(", "p", "e", "c", "a", "n", "s", ")">>,
    <<"c", "o", "r", "n", " ", "(", "1", "6", " ", "o", "z", ")">> }
LineSpecials ==
  { << >>, <<" ", " ">>, <<" ", "s", "a", "l", "t", " ">>, <<"s", "a", "l", "t", " ", "t", "o", " ", "t", "a", "s", "t", "e">>, <<"1", "/", "4", "C", "u", "p", " ", "s", "u", "g", "a", "r">>, <<"b", "u", "t", "t", "e", "r", " ", "o", "p", "t", "i", "o", "n", "a", "l">>, <<"(", "1", "6", " ", "o", "z", ")">>,
    <<"2", " ", "T", "b", "s", " ", "o", "i", "l">>, <<",", " ", "c", "h", "o", "p", "p", "e", "d">>, <<"3">> }
RawLines ==
  { Join(SelectSeq(<<q, u, n>>, LAMBDA w : w # << >>)) :
      q \in LineQuantities, u \in LineUnits, n \in LineNames } \cup LineSpecials

InitParse ==
  /\ raw_line \in {Some(l) : l \in RawLines}
  /\ parsed = None
  /\ conv_args = None
  /\ conv_grams = None
  /\ sum_args = None
  /\ sum_nutrition = None
  /\ converted = None
  /\ qc_args = None
  /\ qc_out = None
  /\ job = None
  /\ InitLoopIdle
  /\ InitCheckIdle
  /\ InitCacheIdle

\* parsed = parse_ingredient(ing_str)
Parse ==
  /\ parsed = None
  /\ parsed' = Some(ParseIngredient(raw_line[1]))
  /\ UNCHANGED <<raw_line, conv_args, conv_grams, sum_args, sum_nutrition, converted, qc_args, qc_out, job>>
  /\ UNCHANGED <<loopVars, checkVars, cacheVars>>

\* the conversion process applies to the same raw line (lines 443-465)
ConvertBaseline ==
  /\ converted = None
  /\ converted' = Some(ConvertLine(raw_line[1]))
  /\ UNCHANGED <<raw_line, parsed, conv_args, conv_grams, sum_args, sum_nutrition,
               qc_args, qc_out, job>>
  /\ UNCHANGED <<loopVars, checkVars, cacheVars>>

NextParse == Parse \/ ConvertBaseline

SpecParse == InitParse /\ [][NextParse]_vars

\* C14: for every string parse_ingredient returns a ParsedIngredient with all
\* its fields set and a quantity greater than zero.
C14_QuantityPositive ==
  parsed # None =>
    /\ DOMAIN parsed[1] = {"ingredient", "quantity", "unit", "modifier"}
    /\ parsed[1].quantity.num > 0

\* C15: a string of one or more words that does not start with a number or a
\* fraction is returned whole as the ingredient, with quantity 1.0 and unit
\* "serving".
C15_NoQuantityIsOneServing ==
  (parsed # None /\ Strip(raw_line[1]) # << >> /\ IsWordChar(Head(Strip(raw_line[1])))
     /\ ~IsDigitChar(Head(Strip(raw_line[1])))) =>
    /\ parsed[1].quantity.num = parsed[1].quantity.den
    /\ parsed[1].unit = Words.serving
    /\ parsed[1].ingredient = raw_line[1]

\* the strings '<whole> <n>/<d> <unit> <name>' and '<n>/<d> <unit> <name>'
\* among the drawn ones, with the quantity, canonical unit and name of each
FractionLines ==
  { [line |-> Join(<<q[1], u[1], n>>), quantity |-> q[2], unit |-> u[2], name |-> n] :
      q \in { <<<<"2", " ", "1", "/", "2">>, Ratio(5, 2)>>, <<<<"1", "/", "4">>, Ratio(1, 4)>>, <<<<"0", "/", "2">>, Ratio(0, 2)>> },
      u \in { <<<<"c", "u", "p">>, <<"c", "u", "p">>>>, <<<<"c", "u", "p", "s">>, <<"c", "u", "p">>>>, <<<<"c", ".">>, <<"c", "u", "p">>>>,
              <<<<"t", "s", "p">>, <<"t", "e", "a", "s", "p", "o", "o", "n">>>>, <<<<"T", "b", "s", "p", ".">>, <<"t", "a", "b", "l", "e", "s", "p", "o", "o", "n">>>> },
      n \in { <<"f", "l", "o", "u", "r">>, <<"s", "a", "l", "t">>, <<"o", "l", "i", "v", "e", " ", "o", "i", "l">> } }

\* C16: '<whole> <n>/<d> <unit> <name>' gives the quantity whole + n/d and
\* '<n>/<d> <unit> <name>' the quantity n/d, with the unit under its canonical
\* name and the name as the ingredient: "2 1/2 cups flour" gives 2.5 "cup"
\* "flour" and "1/4 tsp salt" gives 0.25 "teaspoon" "salt".
C16_FractionsUnitNormalized ==
  \A c \in FractionLines :
    (parsed # None /\ raw_line[1] = c.line) =>
      /\ parsed[1].quantity.num * c.quantity.den = c.quantity.num * parsed[1].quantity.den
      /\ parsed[1].unit = c.unit
      /\ parsed[1].ingredient = c.name

\* ------------------------------------- the loop's working state and order
\* C21: whenever the loop has returned, the ModifiedRecipe it saved is the
\* output of the most recent Recipe Editor call (the baseline recipe when no
\* call was made) and the NutritionInfo it saved as NutritionNode is what the
\* last calculate() returned, which was run on that recipe's ingredients.
C21_ReturnsLatestRecipeAndNutrition ==
  Returned =>
    /\ saved_output # None
    /\ last_edit # None => saved_output[1].model_output = last_edit[1]
    /\ last_edit = None =>
         /\ saved_output[1].model_output.ingredients = initial_ingredients
         /\ saved_output[1].model_output.modifications = << >>
    /\ last_calc # None
    /\ last_calc[1].ingredients = saved_output[1].model_output.ingredients
    /\ nutrition_node = Some(last_calc[1].nutrition)
    /\ nutrition_node = current_nutrition

\* the loop returned after two Recipe Editor calls and a tool call, the
\* nutrition of the returned recipe differing from the one last reported
C21_Witness ==
  /\ Returned
  /\ editor_calls = 2
  /\ tool_calls = 1
  /\ prompt[1].nutrition # nutrition_node[1]

\* a step in which the Constraint Checker has run: the nutrition it ran on
\* was computed on the list the Recipe Editor call of this iteration returned
\* (on the baseline list at entry), and the next prompt, if any, carries that
\* list, that nutrition and the issues of that check
C22_CheckStep ==
  check_log' # check_log =>
    /\ last_calc'[1].ingredients =
         IF pc = "BASELINE" THEN initial_ingredients' ELSE last_edit'[1].ingredients
    /\ pc = "BASELINE" => last_edit' = None
    /\ pc # "BASELINE" => (pc = "ITERATING" /\ editor_calls = Len(check_log))
    /\ current_nutrition' = Some(last_calc'[1].nutrition)
    /\ constraints_met' = CheckConstraintsMet(last_calc'[1].nutrition, normalized).met
    /\ issues' = CheckConstraintsMet(last_calc'[1].nutrition, normalized).issues
    /\ check_log' = Append(check_log, constraints_met')
    /\ pc' = "ITERATING" =>
         /\ prompt' # None
         /\ editor_calls' = Len(check_log')
         /\ prompt'[1].iteration = Len(check_log')
         /\ prompt'[1].ingredients = IngredientDicts(last_calc'[1].ingredients)
         /\ prompt'[1].nutrition = last_calc'[1].nutrition
         /\ prompt'[1].issues = issues'

\* C22: in every iteration the Recipe Editor is invoked first, nutrition is
\* then recomputed on the ingredient list that call returned and the
\* Constraint Checker run on that nutrition; the feedback built for iteration
\* k+1 holds the ingredient list, the nutrition and the issues of iteration k
\* (of the baseline for k = 0).
C22_StepsOrderedFeedbackFromLast ==
  /\ [][C22_CheckStep]_vars
  /\ [](pc = "ITERATING" => (editor_calls = Len(check_log) /\ iteration = editor_calls))
  /\ [](Returned => Len(check_log) = editor_calls + 1)

\* the second prompt has been built from what the first iteration produced
C22_Witness ==
  /\ pc = "ITERATING"
  /\ iteration = 2
  /\ prompt[1].issues # << >>
  /\ prompt[1].ingredients = IngredientDicts(last_edit[1].ingredients)
  /\ prompt[1].ingredients # IngredientDicts(initial_ingredients)

\* C23: for every raw ingredient line, the baseline ParsedIngredient the loop
\* uses (quantity, unit, ingredient) equals the result of parse_ingredient
\* on that line.
C23_BaselineIsParserResult ==
  (parsed # None /\ converted # None) =>
    /\ converted[1].ingredient = parsed[1].ingredient
    /\ converted[1].unit = parsed[1].unit
    /\ converted[1].quantity * parsed[1].quantity.den = 100 * parsed[1].quantity.num

\* ------------------------------------------------ the utils lookup cache
\* one step of the utils cache of calculator c: no key leaves it, a key
\* enters it only as a lookup awaiting that key returns a profile, and a step
\* in which a lookup returns not-found leaves it as it was
C24_CacheStepOf(c) ==
  /\ DOMAIN calc_cache[c] \subseteq DOMAIN calc_cache'[c]
  /\ \A k \in DOMAIN calc_cache'[c] \ DOMAIN calc_cache[c] :
       /\ calc_api_key
       /\ calc_cache'[c][k] \in produced'[c, k]
       /\ \E t \in Tasks :
            /\ task[t].calc = c /\ task[t].phase = "await" /\ AwaitedKey(task[t]) = k
            /\ task'[t].failed = task[t].failed
            /\ task'[t] # task[t]
  /\ (\E t \in Tasks : task[t].calc = c /\ task'[t].failed > task[t].failed) =>
       calc_cache'[c] = calc_cache[c]
  /\ ~calc_api_key => calc_cache'[c] = calc_cache[c]

\* C24: across any sequence of lookups the utils cache only grows: an entry
\* is created only by a lookup whose external query returned at least one
\* candidate, an existing entry is never removed, and a lookup that returns
\* not-found (no API key, no candidate, call error) leaves the cache as it
\* was.
C24_CacheOnlyGrows ==
  [][calc_class = "utils" => \A c \in Calculators : C24_CacheStepOf(c)]_vars

\* a utils cache holds two entries and a lookup on it has returned not-found
C24_Witness ==
  /\ calc_class = "utils"
  /\ \E c \in Calculators :
       /\ Cardinality(DOMAIN calc_cache[c]) = 2
       /\ \E t \in Tasks : task[t].calc = c /\ task[t].failed > 0

\* a name lower-cased with every run of whitespace collapsed and trimmed
WhitespaceNormalized(name) == Join(Split(Lower(name), -1))
NormalizedNameOf == [n \in CacheNames |-> WhitespaceNormalized(n)]

\* C25: two lookups of the utils class whose names differ only in letter case
\* or in whitespace use the same cache entry: when every lookup succeeds, a
\* first calculate() on a calculator of its own makes one external call per
\* lower-cased, whitespace-normalized name.
C25_KeyIsNormalizedName ==
  \A t \in Tasks :
    (/\ calc_class = "utils" /\ calc_api_key /\ Alone(t) /\ task[t].failed = 0
     /\ (task[t].round > 1 \/ task[t].phase = "done")) =>
      task[t].calls[1]
        = Cardinality({NormalizedNameOf[n] : n \in DistinctNames(task[t].ingredients)})

\* the query the utils class sends: the cleaned name, lower-cased
CleanedQueryOf ==
  [n \in CacheNames |-> Strip(Lower(UtilsCleanIngredientName(n)))]

\* candidate i of foods is a prefix match of query at a word boundary
C26_Matches(foods, i, query) ==
  LET desc == Lower(foods[i].description)
  IN  /\ Len(desc) >= Len(query)
      /\ \A j \in 1..Len(query) : desc[j] = query[j]
      /\ (Len(desc) > Len(query) => desc[Len(query) + 1] \in {",", " "})

\* the index of the candidate the lookup is to pick
C26_PickOf ==
  [n \in CacheNames, foods \in CacheFoodLists |->
     IF \E i \in DOMAIN foods : C26_Matches(foods, i, CleanedQueryOf[n])
     THEN CHOOSE i \in DOMAIN foods :
            /\ C26_Matches(foods, i, CleanedQueryOf[n])
            /\ \A j \in 1..(i - 1) : ~C26_Matches(foods, j, CleanedQueryOf[n])
     ELSE 1]

\* the four nutrient values of one food record, by key
C26_ProfileOf ==
  [f \in Foods |->
     [key \in {"calories", "protein", "carbs", "fat"} |->
        LET id == CASE key = "calories" -> 1008 [] key = "protein" -> 1003
                    [] key = "carbs" -> 1005 [] key = "fat" -> 1004
        IN  {f.foodNutrients[i].value :
               i \in {j \in DOMAIN f.foodNutrients : f.foodNutrients[j].nutrientId = id}}]]

\* profile holds exactly the values of food f
C26_BuiltFrom(profile, f) ==
  \A key \in {"calories", "protein", "carbs", "fat"} :
    IF C26_ProfileOf[f][key] = {} THEN key \notin DOMAIN profile
    ELSE key \in DOMAIN profile /\ profile[key] \in C26_ProfileOf[f][key]

\* the lookup task t awaited returns resp, which lists candidates
C26_LookupStep(t, resp) ==
  LookupReturns(t, resp) =>
    LET c == task[t].calc
        k == AwaitedKey(task[t])
        n == task[t].ingredients[task[t].i].ingredient
    IN  /\ k \in DOMAIN calc_cache'[c]
        /\ C26_BuiltFrom(calc_cache'[c][k], resp.foods[C26_PickOf[n, resp.foods]])

\* C26: on a cache miss answered with a non-empty candidate list the lookup
\* takes the first candidate whose lower-cased description starts with the
\* cleaned query followed by a comma, a space or the end of the description,
\* the first candidate when none matches, and the profile it caches holds that
\* candidate's values only.  The node class asks for one result (pageSize 1)
\* and reads it, so it is held to this on the one-candidate answers.
C26_PicksPrefixMatchElseFirst ==
  [][\A t \in Tasks : \A foods \in CacheFoodLists :
       (calc_class = "utils" \/ Len(foods) = 1) => C26_LookupStep(t, RespFoods(foods))]_vars

\* a lookup of "rice" answered with <<"Ricer cheese", "Rice, white">> cached the
\* values of the second candidate, and a lookup of "chicken" answered with the
\* same list the values of the first
C26_Witness ==
  /\ calc_class = "utils"
  /\ \E c \in Calculators :
       /\ UtilsCacheKeyOf[N_rice] \in DOMAIN calc_cache[c]
       /\ C26_BuiltFrom(calc_cache[c][UtilsCacheKeyOf[N_rice]], FoodRice)
       /\ UtilsCacheKeyOf[N_chicken] \in DOMAIN calc_cache[c]
       /\ C26_BuiltFrom(calc_cache[c][UtilsCacheKeyOf[N_chicken]], FoodRicer)

\* the sum, over the ingredients whose lookup returned a profile, of the
\* profile's per-100g value of field times the ingredient's grams / 100
\* (in millionths, as the totals are)
RECURSIVE C27_SumOfFound(_, _, _, _)
C27_SumOfFound(field, ingredients, datas, i) ==
  IF i > Len(ingredients) THEN 0
  ELSE (IF datas[i] = None THEN 0
        ELSE DictGet(datas[i][1], field, 0) * NodeGramsOf[ingredients[i]])
       + C27_SumOfFound(field, ingredients, datas, i + 1)

\* C27: calculate() returns, for each of calories, protein, carbs and fat,
\* the sum over the ingredients with a found profile of per-100g value times
\* grams / 100, truncated once after the summing, whatever earlier calls
\* returned.
C27_SumOverFoundTruncatedOnce ==
  last_calc # None =>
    \A field \in {"calories", "protein", "carbs", "fat"} :
      last_calc[1].nutrition[field] =
        TruncDiv(C27_SumOfFound(field, last_calc[1].ingredients, last_calc[1].datas, 1),
                 1000000)

\* ------------------------------------------------------- QCRouter.route
\* The gate after the modification loop: it reads the ModifiedRecipe, the
\* NutritionInfo and the NormalizedConstraints the earlier nodes saved.

\* the connections of QCRouter in the workflow schema, by class name
WorkflowNodes == {"ExplanationAgent", "FailureAgent"}

\* node_map.get(name), `raise ValueError` when the class is not there
QcNodeFor(name) == IF name \in WorkflowNodes THEN name ELSE "ValueError"

\* checks 1 and 2 (lines 104-138): the conditions are those of
\* _check_constraints_met, written out again with the same arithmetic
QcToleranceIssues(nutrition, constraints) ==
  CalorieIssue(constraints, nutrition) \o MacroIssues(constraints, nutrition)

\* checks 3 and 4 (lines 141-152)
QcCoherenceIssues(modified) ==
  (IF Len(modified.ingredients) < 2
   THEN << [field |-> "ingredients", actual |-> Len(modified.ingredients)] >> ELSE << >>)
  \o (IF Len(modified.directions) < 20
      THEN << [field |-> "directions", actual |-> Len(modified.directions)] >> ELSE << >>)
  \o (IF Len(modified.modifications) > 10
      THEN << [field |-> "modifications", actual |-> Len(modified.modifications)] >>
      ELSE << >>)

\* the routing decision (lines 158-172) and task_context.nodes["qc_issues"]
QcDecide(found) ==
  [next |-> IF Len(found) <= 1 THEN QcNodeFor("ExplanationAgent")
            ELSE QcNodeFor("FailureAgent"),
   found |-> found,
   qc_issues |-> IF found # << >> THEN Some(found) ELSE None]

\* route: [next, found, qc_issues]
QcRoute(modified, nutrition, constraints) ==
  IF modified = None \/ nutrition = None \/ constraints = None
  THEN [next |-> QcNodeFor("FailureAgent"), found |-> << >>, qc_issues |-> None]
  ELSE QcDecide(QcToleranceIssues(nutrition[1], constraints[1])
                  \o QcCoherenceIssues(modified[1]))

QcText(n) == [i \in 1..n |-> "x"]
QcIngredientLists ==
  { <<ParsedIngredient(N_rice, 100, U_cup)>>,
    <<ParsedIngredient(N_chicken, 10000, U_g), ParsedIngredient(N_rice, 100, U_cup)>> }
QcModifieds ==
  { [ingredients |-> ings, directions |-> QcText(d), modifications |-> QcText(m)] :
      ings \in QcIngredientLists, d \in {19, 20}, m \in {10, 11} }
QcCalories == {0, 67, 68, 100, 115, 116, 200}
QcNutritions ==
  { [calories |-> c, protein |-> p, carbs |-> 0, fat |-> f] :
      c \in QcCalories, p \in {20, 30}, f \in {0, 5} }
QcMacroTargets ==
  { None, Some(MacroTargets(Some(30), None, Some(0))),
    Some(MacroTargets(Some(0), Some(0), None)) }
QcConstraints ==
  { Constraints(r, m) : r \in {None, <<80, 100>>}, m \in QcMacroTargets }

\* the loop's last check ran on the nutrition and the constraints the gate
\* is handed; a node that saved nothing leaves its entry missing
InitQC ==
  /\ chk_nutrition \in QcNutritions
  /\ chk_constraints \in QcConstraints
  /\ chk_result = None
  /\ qc_args \in { Some([modified |-> m, nutrition |-> n, normalized |-> c]) :
                     m \in {None} \cup {Some(x) : x \in QcModifieds},
                     n \in {None, Some(chk_nutrition)},
                     c \in {None, Some(chk_constraints)} }
  /\ qc_out = None
  /\ conv_args = None
  /\ conv_grams = None
  /\ raw_line = None
  /\ parsed = None
  /\ sum_args = None
  /\ sum_nutrition = None
  /\ converted = None
  /\ job = None
  /\ InitLoopIdle
  /\ InitCacheIdle

\* QCRouter.route(task_context)
Route ==
  /\ chk_result # None
  /\ qc_args # None
  /\ qc_out = None
  /\ qc_out' = Some(QcRoute(qc_args[1].modified, qc_args[1].nutrition,
                            qc_args[1].normalized))
  /\ UNCHANGED <<conv_args, conv_grams, raw_line, parsed, sum_args, sum_nutrition,
                 converted, qc_args, job>>
  /\ UNCHANGED <<loopVars, checkVars, cacheVars>>

NextQC == Check \/ Route

SpecQC == InitQC /\ [][NextQC]_vars

\* the gate had the recipe, the nutrition and the constraints
QcComplete ==
  /\ qc_args[1].modified # None
  /\ qc_args[1].nutrition # None
  /\ qc_args[1].normalized # None

\* C28: the gate routes to ExplanationAgent when its checks find no issue and
\* to FailureAgent when they find issues, and always to one of the two.
C28_RoutesOnAnyIssue ==
  qc_out # None =>
    /\ qc_out[1].next \in {"ExplanationAgent", "FailureAgent"}
    /\ QcComplete =>
         (qc_out[1].next = "ExplanationAgent" <=> qc_out[1].found = << >>)

\* the label of a macro field in the issues
C30_Label == [protein |-> "Protein", carbs |-> "Carbs", fat |-> "Fat"]

\* no issue of the list is about the field
C30_NoIssueAbout(issue_list, key) ==
  \A i \in DOMAIN issue_list : issue_list[i].field # C30_Label[key]

\* C30: a macro target of 0 counts as not specified: neither the Constraint
\* Checker nor QCRouter emits an issue for a field whose target is 0,
\* whatever the achieved value.
C30_ZeroTargetNeverFlagged ==
  \A key \in {"protein", "carbs", "fat"} :
    (/\ chk_constraints # None
     /\ chk_constraints.macro_targets # None
     /\ chk_constraints.macro_targets[1][key] = Some(0)) =>
      /\ chk_result # None => C30_NoIssueAbout(chk_result[1].issues, key)
      /\ (qc_out # None /\ QcComplete) => C30_NoIssueAbout(qc_out[1].found, key)

\* both have run on a fat of 5 g against a fat target of 0, and the gate
\* found other issues
C30_Witness ==
  /\ chk_result # None
  /\ qc_out # None
  /\ QcComplete
  /\ chk_constraints.macro_targets # None
  /\ chk_constraints.macro_targets[1].fat = Some(0)
  /\ chk_nutrition.fat = 5
  /\ chk_result[1].issues # << >>
  /\ Len(qc_out[1].found) >= 2

\* ------------------------------------------- worker/tasks.py, the Celery task
\* One submitted recommend_meal_async task: the worker runs the task body,
\* and a run that ends in Retry is queued again with request.retries + 1.

\* @celery_app.task(..., max_retries=2, ...)
CeleryMaxRetries == 2

WorkerRequests == {"request_a", "request_b"}
\* what workflow.run leaves in task_context.nodes
WorkflowOutputs == {"ExplanationAgent", "FailureAgent", "neither"}
\* what workflow.run can raise
WorkflowErrors == {"ValueError", "TimeoutError", "SoftTimeLimitExceeded"}

\* the dict the task body returns for a finished workflow (lines 65-112)
ResultOf(output) ==
  IF output = "ExplanationAgent"
  THEN [success |-> TRUE, recommendation |-> Some("recommendation"),
        error_message |-> None, suggestions |-> None]
  ELSE IF output = "FailureAgent"
  THEN [success |-> FALSE, recommendation |-> None,
        error_message |-> Some("failure_response.error_message"),
        suggestions |-> Some("failure_response.suggestions")]
  ELSE [success |-> FALSE, recommendation |-> None,
        error_message |-> Some("Workflow failed to produce a result"),
        suggestions |-> Some("Please try again or adjust your constraints")]

\* the dict of the `except self.MaxRetriesExceededError` branch (122-126)
RetriesExhaustedResult(e) ==
  [success |-> FALSE, recommendation |-> None,
   error_message |-> Some(<<"Task failed after retries", e>>),
   suggestions |-> Some("Please try again later or contact support")]

\* celery.app.task.Task.retry(exc=e, countdown=...) inside a worker: with
\* retries = request.retries + 1 > max_retries it raises exc when exc is given
\* (MaxRetriesExceededError only when it is not), otherwise it sends the task
\* again and raises Retry
CeleryRetry(request_retries, e) ==
  IF request_retries + 1 > CeleryMaxRetries
  THEN [raises |-> e, resend |-> FALSE]
  ELSE [raises |-> "Retry", resend |-> TRUE]

\* the except branch of the task body (114-126): what the body does with
\* the exception retry raised
TaskBodyOnError(j, e) ==
  LET r == CeleryRetry(j.retries, e)
  IN  IF r.raises = "MaxRetriesExceededError"
      THEN [j EXCEPT !.state = "SUCCESS", !.result = Some(RetriesExhaustedResult(e))]
      ELSE IF r.resend
      THEN [j EXCEPT !.state = "RETRY", !.retries = @ + 1,
                     !.countdown = 60 * (j.retries + 1)]
      ELSE [j EXCEPT !.state = "FAILURE", !.raised = Some(r.raises)]

InitWorker ==
  /\ job \in { Some([request_data |-> r, state |-> "PENDING", retries |-> 0, runs |-> 0,
                     countdown |-> 0, errors |-> << >>, result |-> None,
                     raised |-> None]) : r \in WorkerRequests }
  /\ conv_args = None
  /\ conv_grams = None
  /\ raw_line = None
  /\ parsed = None
  /\ sum_args = None
  /\ sum_nutrition = None
  /\ converted = None
  /\ qc_args = None
  /\ qc_out = None
  /\ InitLoopIdle
  /\ InitCheckIdle
  /\ InitCacheIdle

\* a run of the task body in which workflow.run returns
WorkflowReturns(output) ==
  /\ job # None
  /\ job[1].state \in {"PENDING", "RETRY"}
  /\ job' = Some([job[1] EXCEPT !.state = "SUCCESS", !.runs = @ + 1,
                                !.result = Some(ResultOf(output))])
  /\ UNCHANGED <<conv_args, conv_grams, raw_line, parsed, sum_args, sum_nutrition,
                 converted, qc_args, qc_out>>
  /\ UNCHANGED <<loopVars, checkVars, cacheVars>>

\* a run of the task body in which the workflow raises e; logger.error
\* records it
WorkflowRaises(e) ==
  /\ job # None
  /\ job[1].state \in {"PENDING", "RETRY"}
  /\ job' = Some(TaskBodyOnError([job[1] EXCEPT !.runs = @ + 1,
                                                !.errors = Append(@, e)], e))
  /\ UNCHANGED <<conv_args, conv_grams, raw_line, parsed, sum_args, sum_nutrition,
                 converted, qc_args, qc_out>>
  /\ UNCHANGED <<loopVars, checkVars, cacheVars>>

NextWorker ==
  \/ \E output \in WorkflowOutputs : WorkflowReturns(output)
  \/ \E e \in WorkflowErrors : WorkflowRaises(e)

SpecWorker == InitWorker /\ [][NextWorker]_vars

\* C29: when the workflow raises, the task is retried at most 2 times (the
\* workflow runs at most 3 times), and once the retries are used up the
\* task returns {success: False, error_message, suggestions} and does not
\* raise.
C29_RetriesThenReturnsFailure ==
  job # None =>
    /\ job[1].retries <= 2
    /\ job[1].runs <= 3
    /\ job[1].raised = None
    /\ Len(job[1].errors) = 3 =>
         /\ job[1].result # None
         /\ ~job[1].result[1].success
         /\ job[1].result[1].error_message # None
         /\ job[1].result[1].suggestions # None

====
